---- MODULE Spec2Model ----
(***************************************************************************)
(* License-and-credit accounting engine of kluisz-ai-canvas:               *)
(*   LicenseService          (services/license/service.py)                 *)
(*   SubscriptionService     (services/subscription/service.py)            *)
(*   CreditEnforcementService.refund_credits (services/credits/...)        *)
(*   KluiszMeteringCallback  (services/tracing/metering_callback.py)       *)
(*                                                                         *)
(* One tenant is modelled; every user belongs to it.  Money is kept in     *)
(* cents, pricing multipliers in hundredths, so that the Decimal           *)
(* arithmetic of the source is integer arithmetic here.                    *)
(***************************************************************************)
EXTENDS Integers, Sequences, FiniteSets, TLC

VARIABLES pools, users, transactions, subscriptions, meters, result, sessions,
          tenant, history, license_tiers, pricing, model_pricing

vars == <<pools, users, transactions, subscriptions, meters, result, sessions,
          tenant, history, license_tiers, pricing, model_pricing>>

----
(* Bounds of the model *)

MaxCount == 1
MaxCredits == 4
MaxTx == 2
MaxAmount == 2
MaxCost == 2
MaxSubs == 1
MaxTokens == 1
MaxHistory == 3
MaxPrice == 3
MaxCalls == 1

----
(* Static data *)

NoneVal == "None"

(* None in an Optional[int] column *)
NoneInt == -1

Users == {"u1", "u2"}

Tiers == {"t1", "t2"}

Traces == {"tr1"}

Procs == {"p1", "p2"}

(* usage_record_id values a caller passes to deduct_credits *)
UsageIds == {NoneVal, "usage1"}

(* The loaded pricing table in dict order: per-token prices (input,      *)
(* output) in cents by model key.                                        *)
PricingKeys == <<"gpt-4", "default">>

(* LicenseTier rows: credits_per_usd in credits per dollar,               *)
(* pricing_multiplier in hundredths (100 = 1.00).                          *)
(* t3 keeps the column defaults of the two pricing fields (0.00 credits    *)
(* per dollar, multiplier 1.00); t4 has a multiplier of 0; t5 converts a   *)
(* dollar to 75 credits.                                                   *)
Tier(t) ==
  CASE t = "t1" -> [default_credits |-> 2, default_credits_per_month |-> 1,
                    credits_per_usd |-> 100, pricing_multiplier |-> 100]
    [] t = "t3" -> [default_credits |-> 2, default_credits_per_month |-> NoneInt,
                    credits_per_usd |-> 0, pricing_multiplier |-> 100]
    [] t = "t4" -> [default_credits |-> 2, default_credits_per_month |-> NoneInt,
                    credits_per_usd |-> 50, pricing_multiplier |-> 0]
    [] t = "t5" -> [default_credits |-> 2, default_credits_per_month |-> NoneInt,
                    credits_per_usd |-> 75, pricing_multiplier |-> 100]
    [] OTHER -> [default_credits |-> 3, default_credits_per_month |-> NoneInt,
                 credits_per_usd |-> 50, pricing_multiplier |-> 150]

(* The LicenseTier rows of the license and billing runs; Tiers are the    *)
(* ones pool and upgrade calls name.                                      *)
AllTiers == Tiers \cup {"t3", "t4"}

(* The LicenseTier rows of the pricing runs *)
PricedTiers == AllTiers \cup {"t5"}

(* User.is_platform_superadmin *)
IsPlatformSuperadmin(u) == u = "u2"

(* A User row as created: no license, zero balance. *)
BlankUser ==
  [license_tier_id |-> NoneVal, license_pool_id |-> NoneVal,
   credits_allocated |-> 0, credits_used |-> 0,
   credits_per_month |-> NoneInt, license_is_active |-> FALSE]

(* Accumulator of a KluiszMeteringCallback after __init__. *)
NoMeter ==
  [user_id |-> NoneVal, total_input_tokens |-> 0, total_output_tokens |-> 0,
   total_tokens |-> 0, total_cost |-> 0, llm_calls |-> << >>]

NewMeter(u) ==
  [user_id |-> u, total_input_tokens |-> 0, total_output_tokens |-> 0,
   total_tokens |-> 0, total_cost |-> 0, llm_calls |-> << >>]

Max(a, b) == IF a >= b THEN a ELSE b

(* The last call and its outcome: the operation, its user and tier or     *)
(* trace argument, its integer argument (credits asked for, subscription   *)
(* id, cost carried by a response), its preserve_credits flag or whether   *)
(* a warning was logged, and the value returned or error raised.           *)
Ok(op, u, arg) ==
  [op |-> op, user |-> u, arg |-> arg, num |-> 0, flag |-> FALSE,
   error |-> "", credits_deducted |-> 0]

Fail(op, u, arg, e) ==
  [op |-> op, user |-> u, arg |-> arg, num |-> 0, flag |-> FALSE,
   error |-> e, credits_deducted |-> 0]

Deducted(op, u, arg, c) ==
  [op |-> op, user |-> u, arg |-> arg, num |-> 0, flag |-> FALSE,
   error |-> "", credits_deducted |-> c]

(* The pricing engine's working values for one trace: the cost found in   *)
(* the trace, the cost after each step (cents), the tier, the credits.    *)
NoPricing ==
  [step |-> "idle", trace_cost |-> 0, tier_id |-> NoneVal, cost |-> 0,
   credits |-> NoneInt]

ExtractedPricing(c, t) ==
  [step |-> "extracted", trace_cost |-> c, tier_id |-> t, cost |-> c,
   credits |-> NoneInt]

(* Length of a billing period in days: timedelta(days=30) *)
BillingDays == 30

(* The subscription columns of a Tenant row that never had a subscription *)
NoSubscription ==
  [subscription_tier_id |-> NoneVal, subscription_license_count |-> 0,
   subscription_status |-> NoneVal, subscription_renewal_date |-> NoneInt,
   subscription_end_date |-> NoneInt]

(* The Subscription row written by create_subscription.  Dates are days    *)
(* counted from the day of the run; every call of a run is made that day.  *)
NewSubscription(t, n) ==
  [status |-> "active", tier_id |-> t, license_count |-> n,
   renewal_date |-> BillingDays, next_payment_date |-> BillingDays,
   end_date |-> NoneInt]

(* A SubscriptionHistory row *)
HistoryRow(i, action) == [subscription_id |-> i, action |-> action]

NewPool(n) == [total_count |-> n, available_count |-> n, assigned_count |-> 0]

PutPool(ps, t, p) == [x \in (DOMAIN ps) \cup {t} |-> IF x = t THEN p ELSE ps[x]]

Tx(u, type, amount, before, after, usage) ==
  [user_id |-> u, transaction_type |-> type, credits_amount |-> amount,
   credits_before |-> before, credits_after |-> after, usage_record_id |-> usage]

(* A storage session that is not open.  An open session keeps the call's  *)
(* arguments and the rows it has read.                                     *)
IdleSession ==
  [pc |-> "idle", user_id |-> NoneVal, tier_id |-> NoneVal, credits |-> 0,
   usage_record_id |-> NoneVal, user |-> BlankUser, pools |-> << >>]

(* The row an UPDATE leaves: the session writes the columns it changed     *)
(* since it loaded the row, the other columns keep their stored value.     *)
Flushed(stored, loaded, changed) ==
  [f \in DOMAIN stored |-> IF changed[f] # loaded[f] THEN changed[f] ELSE stored[f]]

----
Init ==
  /\ pools = << >>
  /\ users = [u \in Users |-> BlankUser]
  /\ transactions = << >>
  /\ subscriptions = << >>
  /\ meters = [tr \in Traces |-> NoMeter]
  /\ result = Ok("init", NoneVal, NoneVal)
  /\ sessions = [p \in Procs |-> IdleSession]
  /\ tenant = NoSubscription
  /\ history = << >>
  /\ license_tiers = AllTiers
  /\ pricing = NoPricing
  /\ model_pricing = PricingKeys

----
(* License Pool Manager *)

(* create_or_update_pool_for_tier offering the whole new total again *)
CreateOrUpdatePool_M(t, n) ==
  /\ IF t \notin license_tiers
     THEN /\ result' = [Fail("create_or_update_pool", NoneVal, t, "TierNotFound")
                          EXCEPT !.num = n]
          /\ UNCHANGED pools
     ELSE IF t \in DOMAIN pools
     THEN IF n < pools[t].assigned_count
          THEN /\ result' = [Fail("create_or_update_pool", NoneVal, t,
                                   "PoolReductionBelowAssigned") EXCEPT !.num = n]
               /\ UNCHANGED pools
          ELSE /\ pools' = [pools EXCEPT ![t].total_count = n,
                                         ![t].available_count = n]
               /\ result' = [Ok("create_or_update_pool", NoneVal, t) EXCEPT !.num = n]
     ELSE /\ pools' = PutPool(pools, t, NewPool(n))
          /\ result' = [Ok("create_or_update_pool", NoneVal, t) EXCEPT !.num = n]
  /\ UNCHANGED <<users, transactions, subscriptions, meters, sessions, tenant, history, license_tiers, pricing, model_pricing>>

(* LicenseService.create_or_update_pool_for_tier *)
CreateOrUpdatePool(t, n) ==
  /\ IF t \notin license_tiers
     THEN /\ result' = [Fail("create_or_update_pool", NoneVal, t, "TierNotFound")
                          EXCEPT !.num = n]
          /\ UNCHANGED pools
     ELSE IF t \in DOMAIN pools
     THEN IF n < pools[t].assigned_count
          THEN /\ result' = [Fail("create_or_update_pool", NoneVal, t,
                                   "PoolReductionBelowAssigned") EXCEPT !.num = n]
               /\ UNCHANGED pools
          ELSE /\ pools' = [pools EXCEPT ![t].total_count = n,
                                         ![t].available_count = n - pools[t].assigned_count]
               /\ result' = [Ok("create_or_update_pool", NoneVal, t) EXCEPT !.num = n]
     ELSE /\ pools' = PutPool(pools, t, NewPool(n))
          /\ result' = [Ok("create_or_update_pool", NoneVal, t) EXCEPT !.num = n]
  /\ UNCHANGED <<users, transactions, subscriptions, meters, sessions, tenant, history, license_tiers, pricing, model_pricing>>

(* The user row written by a successful assign. *)
AssignedUser(t) ==
  [license_tier_id |-> t, license_pool_id |-> t,
   credits_allocated |-> Tier(t).default_credits, credits_used |-> 0,
   credits_per_month |-> Tier(t).default_credits_per_month,
   license_is_active |-> TRUE]

(* The pool map written by a successful assign. *)
AssignedPools(ps, t) ==
  [ps EXCEPT ![t].available_count = ps[t].available_count - 1,
             ![t].assigned_count = ps[t].assigned_count + 1]

(* assign_license_to_user refusing a pool only below zero available slots *)
Assign_M(u, t) ==
  /\ IF users[u].license_is_active
     THEN /\ result' = Fail("assign", u, t, "AlreadyLicensed")
          /\ UNCHANGED <<pools, users>>
     ELSE IF t \notin license_tiers
     THEN /\ result' = Fail("assign", u, t, "TierNotFound")
          /\ UNCHANGED <<pools, users>>
     ELSE IF t \notin DOMAIN pools
     THEN /\ result' = Fail("assign", u, t, "PoolNotFound")
          /\ UNCHANGED <<pools, users>>
     ELSE IF pools[t].available_count < 0
     THEN /\ result' = Fail("assign", u, t, "PoolExhausted")
          /\ UNCHANGED <<pools, users>>
     ELSE /\ pools' = AssignedPools(pools, t)
          /\ users' = [users EXCEPT ![u] = AssignedUser(t)]
          /\ result' = Ok("assign", u, t)
  /\ UNCHANGED <<transactions, subscriptions, meters, sessions, tenant, history, license_tiers, pricing, model_pricing>>

(* LicenseService.assign_license_to_user *)
Assign(u, t) ==
  /\ IF users[u].license_is_active
     THEN /\ result' = Fail("assign", u, t, "AlreadyLicensed")
          /\ UNCHANGED <<pools, users>>
     ELSE IF t \notin license_tiers
     THEN /\ result' = Fail("assign", u, t, "TierNotFound")
          /\ UNCHANGED <<pools, users>>
     ELSE IF t \notin DOMAIN pools
     THEN /\ result' = Fail("assign", u, t, "PoolNotFound")
          /\ UNCHANGED <<pools, users>>
     ELSE IF pools[t].available_count <= 0
     THEN /\ result' = Fail("assign", u, t, "PoolExhausted")
          /\ UNCHANGED <<pools, users>>
     ELSE /\ pools' = AssignedPools(pools, t)
          /\ users' = [users EXCEPT ![u] = AssignedUser(t)]
          /\ result' = Ok("assign", u, t)
  /\ UNCHANGED <<transactions, subscriptions, meters, sessions, tenant, history, license_tiers, pricing, model_pricing>>

(* The User row create_tenant_user writes with a license: it sets the    *)
(* tier, the credits and the active flag, and no license_pool_id.         *)
CreatedUser(t) ==
  [license_tier_id |-> t, license_pool_id |-> NoneVal,
   credits_allocated |-> Tier(t).default_credits, credits_used |-> 0,
   credits_per_month |-> Tier(t).default_credits_per_month,
   license_is_active |-> TRUE]

(* Usernames create_tenant_user is called with that have no row yet *)
NewUsers == {"u3"}

(* POST /tenants/{tenant_id}/users: create_tenant_user for username u,    *)
(* with license tier t or, when t is NoneVal, without a license.  Every   *)
(* HTTPException leaves the request's session uncommitted.                *)
CreateTenantUser(u, t) ==
  /\ IF u \in DOMAIN users
     THEN /\ result' = Fail("create_tenant_user", u, t, "UsernameUnavailable")
          /\ UNCHANGED <<pools, users>>
     ELSE IF t = NoneVal
     THEN /\ users' = [x \in DOMAIN users \cup {u} |->
                         IF x = u THEN BlankUser ELSE users[x]]
          /\ result' = Ok("create_tenant_user", u, t)
          /\ UNCHANGED pools
     ELSE IF t \notin license_tiers
     THEN /\ result' = Fail("create_tenant_user", u, t, "TierNotFound")
          /\ UNCHANGED <<pools, users>>
     ELSE IF t \notin DOMAIN pools
     THEN /\ result' = Fail("create_tenant_user", u, t, "PoolNotFound")
          /\ UNCHANGED <<pools, users>>
     ELSE IF pools[t].available_count <= 0
     THEN /\ result' = Fail("create_tenant_user", u, t, "PoolExhausted")
          /\ UNCHANGED <<pools, users>>
     ELSE /\ pools' = AssignedPools(pools, t)
          /\ users' = [x \in DOMAIN users \cup {u} |->
                         IF x = u THEN CreatedUser(t) ELSE users[x]]
          /\ result' = Ok("create_tenant_user", u, t)
  /\ UNCHANGED <<transactions, subscriptions, meters, sessions, tenant, history, license_tiers, pricing, model_pricing>>

(* The release that gives the slot back without counting the assignment   *)
(* down                                                                    *)
ReleasedPools_M(ps, t) ==
  IF t \in DOMAIN ps
  THEN [ps EXCEPT ![t].available_count = ps[t].available_count + 1]
  ELSE ps

(* Return of a slot to the pool of tier t, when the tenant has that pool. *)
ReleasedPools(ps, t) ==
  IF t \in DOMAIN ps
  THEN [ps EXCEPT ![t].available_count = ps[t].available_count + 1,
                  ![t].assigned_count = Max(0, ps[t].assigned_count - 1)]
  ELSE ps

(* unassign_license_from_user that returns the slot and leaves the user's *)
(* license fields as they were                                            *)
Unassign_M(u) ==
  /\ IF ~users[u].license_is_active \/ users[u].license_tier_id = NoneVal
     THEN /\ result' = Fail("unassign", u, NoneVal, "NoActiveLicense")
          /\ UNCHANGED <<pools, users>>
     ELSE /\ pools' = ReleasedPools(pools, users[u].license_tier_id)
          /\ result' = Ok("unassign", u, NoneVal)
          /\ UNCHANGED users
  /\ UNCHANGED <<transactions, subscriptions, meters, sessions, tenant, history, license_tiers, pricing, model_pricing>>

(* LicenseService.unassign_license_from_user *)
Unassign(u) ==
  /\ IF ~users[u].license_is_active \/ users[u].license_tier_id = NoneVal
     THEN /\ result' = Fail("unassign", u, NoneVal, "NoActiveLicense")
          /\ UNCHANGED <<pools, users>>
     ELSE /\ pools' = ReleasedPools(pools, users[u].license_tier_id)
          /\ users' = [users EXCEPT ![u] = BlankUser]
          /\ result' = Ok("unassign", u, NoneVal)
  /\ UNCHANGED <<transactions, subscriptions, meters, sessions, tenant, history, license_tiers, pricing, model_pricing>>

(* The allocation that ignores preserve_credits and drops the balance left *)
UpgradedAllocation_M(usr, t, preserve) == Tier(t).default_credits

(* credits_allocated written by upgrade_user_license *)
UpgradedAllocation(usr, t, preserve) ==
  IF preserve
  THEN (usr.credits_allocated - usr.credits_used) + Tier(t).default_credits
  ELSE Tier(t).default_credits

(* LicenseService.upgrade_user_license *)
Upgrade(u, t, preserve) ==
  /\ Len(transactions) < MaxTx
  /\ UpgradedAllocation(users[u], t, preserve) <= MaxCredits
  /\ IF ~users[u].license_is_active
     THEN /\ result' = [Fail("upgrade", u, t, "NoActiveLicense") EXCEPT !.flag = preserve]
          /\ UNCHANGED <<pools, users, transactions>>
     ELSE IF users[u].license_tier_id = NoneVal
     THEN /\ result' = [Fail("upgrade", u, t, "NoCurrentTier") EXCEPT !.flag = preserve]
          /\ UNCHANGED <<pools, users, transactions>>
     ELSE IF t \notin license_tiers
     THEN /\ result' = [Fail("upgrade", u, t, "TierNotFound") EXCEPT !.flag = preserve]
          /\ UNCHANGED <<pools, users, transactions>>
     ELSE IF t \notin DOMAIN pools
     THEN /\ result' = [Fail("upgrade", u, t, "PoolNotFound") EXCEPT !.flag = preserve]
          /\ UNCHANGED <<pools, users, transactions>>
     ELSE IF pools[t].available_count <= 0
     THEN /\ result' = [Fail("upgrade", u, t, "PoolExhausted") EXCEPT !.flag = preserve]
          /\ UNCHANGED <<pools, users, transactions>>
     ELSE LET released == ReleasedPools(pools, users[u].license_tier_id)
              newAlloc == UpgradedAllocation(users[u], t, preserve)
          IN /\ pools' = AssignedPools(released, t)
             /\ users' = [users EXCEPT ![u] =
                            [license_tier_id |-> t, license_pool_id |-> t,
                             credits_allocated |-> newAlloc, credits_used |-> 0,
                             credits_per_month |-> Tier(t).default_credits_per_month,
                             license_is_active |-> TRUE]]
             /\ transactions' = Append(transactions,
                                   Tx(u, "upgrade", Tier(t).default_credits,
                                      users[u].credits_allocated, newAlloc, NoneVal))
             /\ result' = [Ok("upgrade", u, t) EXCEPT !.flag = preserve]
  /\ UNCHANGED <<subscriptions, meters, sessions, tenant, history, license_tiers, pricing, model_pricing>>

(* delete_license_tier without the look at the tenants' pools *)
DeleteTier_M(t) ==
  /\ IF t \notin license_tiers
     THEN /\ result' = Fail("delete_license_tier", NoneVal, t, "TierNotFound")
          /\ UNCHANGED license_tiers
     ELSE /\ license_tiers' = license_tiers \ {t}
          /\ result' = Ok("delete_license_tier", NoneVal, t)
  /\ UNCHANGED <<pools, users, transactions, subscriptions, meters, sessions,
                 tenant, history, pricing, model_pricing>>

(* delete_license_tier (api/v2/license_tiers.py) *)
DeleteTier(t) ==
  /\ IF t \notin license_tiers
     THEN /\ result' = Fail("delete_license_tier", NoneVal, t, "TierNotFound")
          /\ UNCHANGED license_tiers
     ELSE IF t \in DOMAIN pools
     THEN /\ result' = Fail("delete_license_tier", NoneVal, t, "TierInUse")
          /\ UNCHANGED license_tiers
     ELSE /\ license_tiers' = license_tiers \ {t}
          /\ result' = Ok("delete_license_tier", NoneVal, t)
  /\ UNCHANGED <<pools, users, transactions, subscriptions, meters, sessions,
                 tenant, history, pricing, model_pricing>>

----
(* Subscription Lifecycle *)

(* The Tenant columns written by create_subscription *)
SubscribedTenant(ten, t, n) ==
  [ten EXCEPT !.subscription_tier_id = t,
              !.subscription_license_count = n,
              !.subscription_status = "active",
              !.subscription_renewal_date = BillingDays]

(* create_subscription adding its history row to both of its commits *)
CreateSubscription_M(t, n) ==
  /\ Len(subscriptions) < MaxSubs
  /\ IF t \notin license_tiers
     THEN /\ result' = Fail("create_subscription", NoneVal, t, "TierNotFound")
          /\ UNCHANGED <<subscriptions, tenant, pools, history>>
     ELSE /\ subscriptions' = Append(subscriptions, NewSubscription(t, n))
          /\ tenant' = SubscribedTenant(tenant, t, n)
          /\ pools' = PutPool(pools, t, NewPool(n))
          /\ history' = Append(Append(history, HistoryRow(Len(subscriptions) + 1, "created")),
                               HistoryRow(Len(subscriptions) + 1, "created"))
          /\ result' = [Ok("create_subscription", NoneVal, t)
                          EXCEPT !.num = Len(subscriptions) + 1]
  /\ UNCHANGED <<users, transactions, meters, sessions, license_tiers, pricing, model_pricing>>

(* SubscriptionService.create_subscription *)
CreateSubscription(t, n) ==
  /\ Len(subscriptions) < MaxSubs
  /\ IF t \notin license_tiers
     THEN /\ result' = Fail("create_subscription", NoneVal, t, "TierNotFound")
          /\ UNCHANGED <<subscriptions, tenant, pools, history>>
     ELSE /\ subscriptions' = Append(subscriptions, NewSubscription(t, n))
          /\ tenant' = SubscribedTenant(tenant, t, n)
          /\ pools' = PutPool(pools, t, NewPool(n))
          /\ history' = Append(history, HistoryRow(Len(subscriptions) + 1, "created"))
          /\ result' = [Ok("create_subscription", NoneVal, t)
                          EXCEPT !.num = Len(subscriptions) + 1]
  /\ UNCHANGED <<users, transactions, meters, sessions, license_tiers, pricing, model_pricing>>

(* create_subscription whose second commit, the one of the history row,   *)
(* fails: the subscription, the tenant columns and the pool are committed  *)
(* by the first commit and stay.                                           *)
CreateSubscriptionHistoryFails(t, n) ==
  /\ Len(subscriptions) < MaxSubs
  /\ t \in license_tiers
  /\ subscriptions' = Append(subscriptions, NewSubscription(t, n))
  /\ tenant' = SubscribedTenant(tenant, t, n)
  /\ pools' = PutPool(pools, t, NewPool(n))
  /\ result' = [Fail("create_subscription", NoneVal, t, "HistoryCommitFailed")
                  EXCEPT !.num = Len(subscriptions) + 1]
  /\ UNCHANGED <<users, transactions, meters, sessions, history, license_tiers, pricing, model_pricing>>

(* The top-up that also starts the month with credits_used at 0 *)
ToppedUp_M(usr) ==
  IF /\ usr.license_is_active
     /\ usr.credits_per_month # NoneInt
     /\ usr.credits_per_month # 0
  THEN [usr EXCEPT !.credits_allocated = usr.credits_allocated + usr.credits_per_month,
                   !.credits_used = 0]
  ELSE usr

(* The monthly top-up of one user row in renew_subscription. *)
ToppedUp(usr) ==
  IF /\ usr.license_is_active
     /\ usr.credits_per_month # NoneInt
     /\ usr.credits_per_month # 0
  THEN [usr EXCEPT !.credits_allocated = usr.credits_allocated + usr.credits_per_month]
  ELSE usr

(* The renewal date counted from the day of the call instead of the      *)
(* renewal date the subscription has                                      *)
NextRenewalDate_M(sub) == BillingDays

(* renewal_date written by renew_subscription; now + 30 days when unset *)
NextRenewalDate(sub) ==
  IF sub.renewal_date # NoneInt
  THEN sub.renewal_date + BillingDays
  ELSE BillingDays

(* renew_subscription without the check of the status *)
Renew_M(i) ==
  /\ i \in DOMAIN subscriptions
  /\ Len(history) < MaxHistory
  /\ \A u \in Users : ToppedUp(users[u]).credits_allocated <= MaxCredits
  /\ subscriptions' = [subscriptions EXCEPT
                         ![i].renewal_date = NextRenewalDate(subscriptions[i]),
                         ![i].next_payment_date = NextRenewalDate(subscriptions[i])]
  /\ tenant' = [tenant EXCEPT !.subscription_renewal_date =
                                NextRenewalDate(subscriptions[i])]
  /\ users' = [u \in Users |-> ToppedUp(users[u])]
  /\ history' = Append(history, HistoryRow(i, "renewed"))
  /\ result' = [Ok("renew", NoneVal, NoneVal) EXCEPT !.num = i]
  /\ UNCHANGED <<pools, transactions, meters, sessions, license_tiers, pricing, model_pricing>>

(* SubscriptionService.renew_subscription *)
Renew(i) ==
  /\ i \in DOMAIN subscriptions
  /\ IF subscriptions[i].status # "active"
     THEN /\ result' = [Fail("renew", NoneVal, NoneVal, "SubscriptionNotActive")
                          EXCEPT !.num = i]
          /\ UNCHANGED <<users, subscriptions, tenant, history>>
     ELSE /\ Len(history) < MaxHistory
          /\ \A u \in Users : ToppedUp(users[u]).credits_allocated <= MaxCredits
          /\ subscriptions' = [subscriptions EXCEPT
                                 ![i].renewal_date = NextRenewalDate(subscriptions[i]),
                                 ![i].next_payment_date = NextRenewalDate(subscriptions[i])]
          /\ tenant' = [tenant EXCEPT !.subscription_renewal_date =
                                        NextRenewalDate(subscriptions[i])]
          /\ users' = [u \in Users |-> ToppedUp(users[u])]
          /\ history' = Append(history, HistoryRow(i, "renewed"))
          /\ result' = [Ok("renew", NoneVal, NoneVal) EXCEPT !.num = i]
  /\ UNCHANGED <<pools, transactions, meters, sessions, license_tiers, pricing, model_pricing>>

(* cancel_subscription ending the access at once: end_date = now *)
Cancel_M(i) ==
  /\ i \in DOMAIN subscriptions
  /\ Len(history) < MaxHistory
  /\ subscriptions' = [subscriptions EXCEPT ![i].status = "cancelled",
                                            ![i].end_date = 0]
  /\ tenant' = [tenant EXCEPT !.subscription_status = "cancelled",
                              !.subscription_end_date = 0]
  /\ history' = Append(history, HistoryRow(i, "cancelled"))
  /\ result' = [Ok("cancel", NoneVal, NoneVal) EXCEPT !.num = i]
  /\ UNCHANGED <<pools, users, transactions, meters, sessions, license_tiers, pricing, model_pricing>>

(* SubscriptionService.cancel_subscription *)
Cancel(i) ==
  /\ i \in DOMAIN subscriptions
  /\ Len(history) < MaxHistory
  /\ subscriptions' = [subscriptions EXCEPT
                         ![i].status = "cancelled",
                         ![i].end_date = subscriptions[i].renewal_date]
  /\ tenant' = [tenant EXCEPT !.subscription_status = "cancelled",
                              !.subscription_end_date = subscriptions[i].renewal_date]
  /\ history' = Append(history, HistoryRow(i, "cancelled"))
  /\ result' = [Ok("cancel", NoneVal, NoneVal) EXCEPT !.num = i]
  /\ UNCHANGED <<pools, users, transactions, meters, sessions, license_tiers, pricing, model_pricing>>

----
(* Credit Ledger *)

(* deduct_credits refusing only when nothing at all is left *)
Deduct_M(u, credits, usage_record_id) ==
  /\ Len(transactions) < MaxTx
  /\ LET usr == users[u]
         credits_remaining == usr.credits_allocated - usr.credits_used
     IN IF ~usr.license_is_active
        THEN /\ result' = [Fail("deduct", u, NoneVal, "NoActiveLicense") EXCEPT !.num = credits]
             /\ UNCHANGED <<users, transactions>>
        ELSE IF credits_remaining <= 0
        THEN /\ result' = [Fail("deduct", u, NoneVal, "InsufficientCredits") EXCEPT !.num = credits]
             /\ UNCHANGED <<users, transactions>>
        ELSE /\ users' = [users EXCEPT ![u].credits_used = usr.credits_used + credits]
             /\ transactions' = Append(transactions,
                                  Tx(u, "deduction", credits, credits_remaining,
                                     usr.credits_allocated - (usr.credits_used + credits),
                                     usage_record_id))
             /\ result' = [Deducted("deduct", u, NoneVal, credits) EXCEPT !.num = credits]
  /\ UNCHANGED <<pools, subscriptions, meters, sessions, tenant, history, license_tiers, pricing, model_pricing>>

(* LicenseService.deduct_credits *)
Deduct(u, credits, usage_record_id) ==
  /\ Len(transactions) < MaxTx
  /\ LET usr == users[u]
         credits_remaining == usr.credits_allocated - usr.credits_used
     IN IF ~usr.license_is_active
        THEN /\ result' = [Fail("deduct", u, NoneVal, "NoActiveLicense") EXCEPT !.num = credits]
             /\ UNCHANGED <<users, transactions>>
        ELSE IF credits_remaining < credits
        THEN /\ result' = [Fail("deduct", u, NoneVal, "InsufficientCredits") EXCEPT !.num = credits]
             /\ UNCHANGED <<users, transactions>>
        ELSE /\ users' = [users EXCEPT ![u].credits_used = usr.credits_used + credits]
             /\ transactions' = Append(transactions,
                                  Tx(u, "deduction", credits, credits_remaining,
                                     usr.credits_allocated - (usr.credits_used + credits),
                                     usage_record_id))
             /\ result' = [Deducted("deduct", u, NoneVal, credits) EXCEPT !.num = credits]
  /\ UNCHANGED <<pools, subscriptions, meters, sessions, tenant, history, license_tiers, pricing, model_pricing>>

(* add_credits that raises the allocation and writes no transaction row *)
AddCredits_M(u, credits) ==
  /\ Len(transactions) < MaxTx
  /\ users[u].credits_allocated + credits <= MaxCredits
  /\ LET usr == users[u]
     IN /\ users' = [users EXCEPT ![u].credits_allocated = usr.credits_allocated + credits]
        /\ UNCHANGED transactions
        /\ result' = Ok("add", u, NoneVal)
  /\ UNCHANGED <<pools, subscriptions, meters, sessions, tenant, history, license_tiers, pricing, model_pricing>>

(* LicenseService.add_credits *)
AddCredits(u, credits) ==
  /\ Len(transactions) < MaxTx
  /\ users[u].credits_allocated + credits <= MaxCredits
  /\ LET usr == users[u]
     IN /\ users' = [users EXCEPT ![u].credits_allocated = usr.credits_allocated + credits]
        /\ transactions' = Append(transactions,
                             Tx(u, "addition", credits,
                                usr.credits_allocated - usr.credits_used,
                                (usr.credits_allocated + credits) - usr.credits_used,
                                NoneVal))
        /\ result' = Ok("add", u, NoneVal)
  /\ UNCHANGED <<pools, subscriptions, meters, sessions, tenant, history, license_tiers, pricing, model_pricing>>

(* refund_credits that corrects the latest transaction row in place *)
Refund_M(u, credits) ==
  /\ transactions # << >>
  /\ LET usr == users[u]
         newUsed == Max(0, usr.credits_used - credits)
     IN /\ users' = [users EXCEPT ![u].credits_used = newUsed]
        /\ transactions' = [transactions EXCEPT ![Len(transactions)] =
                             Tx(u, "refund", credits,
                                usr.credits_allocated - usr.credits_used,
                                usr.credits_allocated - newUsed,
                                NoneVal)]
        /\ result' = Ok("refund", u, NoneVal)
  /\ UNCHANGED <<pools, subscriptions, meters, sessions, tenant, history, license_tiers, pricing, model_pricing>>

(* CreditEnforcementService.refund_credits *)
Refund(u, credits) ==
  /\ Len(transactions) < MaxTx
  /\ LET usr == users[u]
         newUsed == Max(0, usr.credits_used - credits)
     IN /\ users' = [users EXCEPT ![u].credits_used = newUsed]
        /\ transactions' = Append(transactions,
                             Tx(u, "refund", credits,
                                usr.credits_allocated - usr.credits_used,
                                usr.credits_allocated - newUsed,
                                NoneVal))
        /\ result' = Ok("refund", u, NoneVal)
  /\ UNCHANGED <<pools, subscriptions, meters, sessions, tenant, history, license_tiers, pricing, model_pricing>>

----
(* Metering Pipeline *)

(* KluiszMeteringCallback.__init__ *)
NewCallback(tr, u) ==
  /\ meters[tr] = NoMeter
  /\ meters' = [meters EXCEPT ![tr] = NewMeter(u)]
  /\ result' = Ok("new_callback", u, tr)
  /\ UNCHANGED <<pools, users, transactions, subscriptions, sessions, tenant, history, license_tiers, pricing, model_pricing>>

(* Places of a response that can carry a cost: the dict and the key *)
CostKeys ==
  {"llm_output.cost", "llm_output.total_cost", "llm_output.total_price",
   "token_usage.cost", "token_usage.total_cost", "response_metadata.cost"}

(* Model names a response can carry *)
ModelNames == {"gpt-4", "unknown-model"}

ModelPricing(key) ==
  CASE key = "gpt-4" -> <<2, 2>>
    [] key = "gpt-4o" -> <<3, 1>>
    [] key = "gpt-4o-mini" -> <<1, 3>>
    [] OTHER -> <<1, 1>>

(* model_key in model_lower: the key is a substring of the model name *)
KeyInModel(key, model) ==
  CASE model = "gpt-4" -> key = "gpt-4"
    [] model = "gpt-4o" -> key \in {"gpt-4", "gpt-4o"}
    [] model = "gpt-4o-mini" -> key \in {"gpt-4", "gpt-4o", "gpt-4o-mini"}
    [] OTHER -> FALSE

(* The keys a pricing file lists and the tables it can hold: the keys in *)
(* any order                                                              *)
AllPricingKeys == {"gpt-4", "gpt-4o", "gpt-4o-mini", "default"}

PricingTables ==
  {table \in [1..Cardinality(AllPricingKeys) -> AllPricingKeys] :
     \A i, k \in DOMAIN table : i # k => table[i] # table[k]}

(* Model names _estimate_cost is asked about *)
EstimateModels == {"gpt-4", "gpt-4o", "gpt-4o-mini", "unknown-model"}

(* The responses on_llm_end is called with. total_tokens and cost are    *)
(* NoneInt when the response does not carry them. malformed names what   *)
(* is wrong with the response: "llm_output" is an llm_output that is not *)
(* a dict, "completion_tokens" a completion_tokens that is not a number. *)
Responses ==
  [input_tokens : 0..MaxTokens, output_tokens : 0..MaxTokens,
   total_tokens : {NoneInt, MaxTokens},
   cost : {NoneInt} \cup (0..MaxCost),
   model : ModelNames,
   cost_key : {"llm_output.cost"},
   malformed : {""}]
  \cup
  [input_tokens : {0}, output_tokens : {0}, total_tokens : {NoneInt},
   cost : {NoneInt}, model : {"gpt-4"}, cost_key : {"llm_output.cost"},
   malformed : {"llm_output"}]
  \cup
  [input_tokens : 0..MaxTokens, output_tokens : {0},
   total_tokens : {NoneInt, MaxTokens},
   cost : {NoneInt, MaxCost},
   model : {"gpt-4"},
   cost_key : {"llm_output.cost"},
   malformed : {"completion_tokens"}]

(* Well-formed responses that carry a cost at any of the places, or none *)
CostReports ==
  [input_tokens : 0..MaxTokens, output_tokens : 0..MaxTokens,
   total_tokens : {NoneInt},
   cost : {NoneInt} \cup (0..MaxCost),
   model : ModelNames,
   cost_key : CostKeys,
   malformed : {""}]

(* A well-formed response that reports its cost *)
ReportedUsage(cost, tokens) ==
  [input_tokens |-> tokens, output_tokens |-> 0, total_tokens |-> NoneInt,
   cost |-> cost, model |-> "gpt-4", cost_key |-> "llm_output.cost",
   malformed |-> ""]

(* _estimate_cost that prices a model without a key by the first entry *)
EstimateCost_M(model, input_tokens, output_tokens) ==
  LET price == ModelPricing(model_pricing[1])
  IN input_tokens * price[1] + output_tokens * price[2]

(* _estimate_cost: the first key contained in the model name, or the     *)
(* default entry                                                         *)
EstimateCost(model, input_tokens, output_tokens) ==
  LET matching == {i \in DOMAIN model_pricing : KeyInModel(model_pricing[i], model)}
      first == CHOOSE i \in matching : \A k \in matching : i <= k
      price == IF matching # {} THEN ModelPricing(model_pricing[first])
                                ELSE ModelPricing("default")
  IN input_tokens * price[1] + output_tokens * price[2]

(* A call of _estimate_cost; the result keeps the arguments and the cost *)
EstimateCostCall(model, input_tokens, output_tokens) ==
  /\ result' = [Ok("estimate_cost", NoneVal,
                   [model |-> model, input_tokens |-> input_tokens,
                    output_tokens |-> output_tokens])
                  EXCEPT !.num = EstimateCost(model, input_tokens, output_tokens)]
  /\ UNCHANGED <<pools, users, transactions, subscriptions, meters, sessions, tenant, history, license_tiers, pricing, model_pricing>>

(* reload_pricing after the pricing file was rewritten *)
ReloadPricing(table) ==
  /\ model_pricing' = table
  /\ result' = Ok("reload_pricing", NoneVal, NoneVal)
  /\ UNCHANGED <<pools, users, transactions, subscriptions, meters, sessions, tenant, history, license_tiers, pricing>>

(* _extract_cost_from_response: each place is read with a chain          *)
(* get(k1) or get(k2) or ..., which passes over a value of 0 unless it    *)
(* stands under the last key of the chain; None when nothing is left.     *)
ExtractCostFromResponse(r) ==
  IF r.cost = NoneInt THEN NoneInt
  ELSE IF r.cost # 0 \/ r.cost_key = "llm_output.total_price" THEN r.cost
  ELSE NoneInt

(* _calculate_cost: llm_output["cost"] or usage["total_cost"] when the    *)
(* key is present, else the estimate                                      *)
CalculateCost(r) ==
  IF r.cost # NoneInt /\ r.cost_key \in {"llm_output.cost", "token_usage.total_cost"}
  THEN r.cost
  ELSE EstimateCost(r.model, r.input_tokens, r.output_tokens)

(* The entry on_llm_end appends to _llm_calls *)
LlmCall(model, input_tokens, output_tokens, total_tokens, cost) ==
  [model |-> model, input_tokens |-> input_tokens,
   output_tokens |-> output_tokens, total_tokens |-> total_tokens,
   cost_usd |-> cost]

(* KluiszMeteringCallback.on_llm_end on response r: the usage and cost   *)
(* are read, then added to the totals one after the other, then the call *)
(* is appended; an exception on the way is logged and not raised.        *)
OnLlmEnd(tr, r) ==
  /\ meters[tr] # NoMeter
  /\ LET m == meters[tr]
         total_tokens == IF r.total_tokens > 0 THEN r.total_tokens
                         ELSE r.input_tokens + r.output_tokens
         cost == IF ExtractCostFromResponse(r) # NoneInt
                 THEN ExtractCostFromResponse(r)
                 ELSE CalculateCost(r)
         warned == [Ok("on_llm_end", m.user_id, tr)
                      EXCEPT !.num = r.cost, !.flag = TRUE]
     IN IF \/ r.malformed = "llm_output"
           \/ /\ r.malformed = "completion_tokens"
              /\ (r.total_tokens <= 0 \/ r.cost = NoneInt)
        THEN /\ result' = warned
             /\ UNCHANGED meters
        ELSE IF r.malformed = "completion_tokens"
        THEN /\ m.total_input_tokens + r.input_tokens <= MaxTokens
             /\ meters' = [meters EXCEPT ![tr].total_input_tokens =
                                            m.total_input_tokens + r.input_tokens]
             /\ result' = warned
        ELSE /\ m.total_input_tokens + r.input_tokens <= MaxTokens
             /\ m.total_output_tokens + r.output_tokens <= MaxTokens
             /\ m.total_tokens + total_tokens <= MaxTokens
             /\ m.total_cost + cost <= MaxCost
             /\ Len(m.llm_calls) < MaxCalls
             /\ meters' = [meters EXCEPT ![tr] =
                   [m EXCEPT
                      !.total_input_tokens = m.total_input_tokens + r.input_tokens,
                      !.total_output_tokens = m.total_output_tokens + r.output_tokens,
                      !.total_tokens = m.total_tokens + total_tokens,
                      !.total_cost = m.total_cost + cost,
                      !.llm_calls = Append(m.llm_calls,
                                      LlmCall(r.model, r.input_tokens, r.output_tokens,
                                              total_tokens, cost))]]
             /\ result' = [Ok("on_llm_end", m.user_id, tr) EXCEPT !.num = r.cost]
  /\ UNCHANGED <<pools, users, transactions, subscriptions, sessions, tenant, history, license_tiers, pricing, model_pricing>>

(* Decimal.quantize of n/d to a whole number under the default context, *)
(* ROUND_HALF_EVEN, for n >= 0 and d > 0                                 *)
Quantize(n, d) ==
  LET q == n \div d
      r == n % d
  IN IF 2 * r < d THEN q
     ELSE IF 2 * r > d THEN q + 1
     ELSE IF q % 2 = 0 THEN q ELSE q + 1

(* PricingEngine.apply_tier_multiplier: cost (cents) times the tier's     *)
(* multiplier when the tier exists and has one, rounded to the cent.      *)
ApplyTierMultiplier(cost, t) ==
  IF t = NoneVal THEN cost
  ELSE IF t \in license_tiers /\ Tier(t).pricing_multiplier # 0
  THEN Quantize(cost * Tier(t).pricing_multiplier, 100)
  ELSE cost

(* calculate_credits_from_cost with the fraction of a credit cut off *)
CalculateCreditsFromCost_M(cost, t) ==
  (cost * Tier(t).credits_per_usd) \div 100

(* PricingEngine.calculate_credits_from_cost for a tier that exists:      *)
(* int((cost_usd * (credits_per_usd or 0)).quantize(Decimal("1")))        *)
CalculateCreditsFromCost(cost, t) ==
  Quantize(cost * Tier(t).credits_per_usd, 100)

(* process_trace_for_credits, step 1: the cost found in a trace *)
ProcessTrace(c, t) ==
  /\ pricing.step \in {"idle", "credits"}
  /\ pricing' = ExtractedPricing(c, t)
  /\ result' = [Ok("extract_cost_from_trace", NoneVal, t) EXCEPT !.num = c]
  /\ UNCHANGED <<pools, users, transactions, subscriptions, meters, sessions,
                 tenant, history, license_tiers, model_pricing>>

(* process_trace_for_credits, step 2 *)
ProcessTraceMultiplier ==
  /\ pricing.step = "extracted"
  /\ pricing' = [pricing EXCEPT
                   !.step = "adjusted",
                   !.cost = ApplyTierMultiplier(pricing.cost, pricing.tier_id)]
  /\ result' = [Ok("apply_tier_multiplier", NoneVal, pricing.tier_id)
                  EXCEPT !.num = pricing.cost]
  /\ UNCHANGED <<pools, users, transactions, subscriptions, meters, sessions,
                 tenant, history, license_tiers, model_pricing>>

(* process_trace_for_credits, step 3, and calculate_credits_from_cost     *)
(* called on a cost as it stands                                          *)
ProcessTraceCredits ==
  /\ pricing.step \in {"extracted", "adjusted"}
  /\ IF pricing.tier_id \notin license_tiers
     THEN /\ result' = [Fail("calculate_credits_from_cost", NoneVal,
                              pricing.tier_id, "TierNotFound")
                          EXCEPT !.num = pricing.cost]
          /\ pricing' = NoPricing
     ELSE /\ pricing' = [pricing EXCEPT
                           !.step = "credits",
                           !.credits = CalculateCreditsFromCost(pricing.cost,
                                                                pricing.tier_id)]
          /\ result' = [Ok("calculate_credits_from_cost", NoneVal, pricing.tier_id)
                          EXCEPT !.num = pricing.cost,
                                 !.flag = (pricing.step = "adjusted")]
  /\ UNCHANGED <<pools, users, transactions, subscriptions, meters, sessions,
                 tenant, history, license_tiers, model_pricing>>

(* The amount rounded to the nearest credit instead of cut off *)
MeteredCredits_M(cost, tokens, t) ==
  LET credits_per_usd == IF Tier(t).credits_per_usd # 0
                         THEN Tier(t).credits_per_usd ELSE 100
      adjusted_cost == IF Tier(t).pricing_multiplier # 0
                       THEN cost * Tier(t).pricing_multiplier
                       ELSE cost * 100
      credits == (adjusted_cost * credits_per_usd + 5000) \div 10000
  IN IF credits = 0 /\ tokens > 0 THEN 1 ELSE credits

(* Credits charged by finalize_and_deduct for an accumulated cost (cents)  *)
(* and token total under tier t: int(cost * multiplier * credits_per_usd), *)
(* raised to 1 when it is 0 and tokens were used.                          *)
MeteredCredits(cost, tokens, t) ==
  LET credits_per_usd == IF Tier(t).credits_per_usd # 0
                         THEN Tier(t).credits_per_usd ELSE 100
      adjusted_cost == IF Tier(t).pricing_multiplier # 0
                       THEN cost * Tier(t).pricing_multiplier
                       ELSE cost * 100
      credits == (adjusted_cost * credits_per_usd) \div 10000
  IN IF credits = 0 /\ tokens > 0 THEN 1 ELSE credits

(* finalize_and_deduct without the check of the user's license *)
FinalizeAndDeduct_M(tr) ==
  /\ meters[tr] # NoMeter
  /\ Len(transactions) < MaxTx
  /\ LET m == meters[tr]
         u == m.user_id
         usr == users[u]
         credits == MeteredCredits(m.total_cost, m.total_tokens, usr.license_tier_id)
     IN IF m.total_cost <= 0 \/ IsPlatformSuperadmin(u) \/ credits <= 0
        THEN /\ result' = Ok("finalize_and_deduct", u, tr)
             /\ UNCHANGED <<users, transactions>>
        ELSE /\ users' = [users EXCEPT ![u].credits_used = usr.credits_used + credits]
             /\ transactions' = Append(transactions,
                                  Tx(u, "deduction", credits,
                                     usr.credits_allocated - usr.credits_used,
                                     usr.credits_allocated - (usr.credits_used + credits),
                                     tr))
             /\ result' = Deducted("finalize_and_deduct", u, tr, credits)
  /\ UNCHANGED <<pools, subscriptions, meters, sessions, tenant, history, license_tiers, pricing, model_pricing>>

(* KluiszMeteringCallback.finalize_and_deduct *)
FinalizeAndDeduct(tr) ==
  /\ meters[tr] # NoMeter
  /\ Len(transactions) < MaxTx
  /\ LET m == meters[tr]
         u == m.user_id
         usr == users[u]
         credits == MeteredCredits(m.total_cost, m.total_tokens, usr.license_tier_id)
     IN IF m.total_cost <= 0
        THEN /\ result' = Ok("finalize_and_deduct", u, tr)
             /\ UNCHANGED <<users, transactions>>
        ELSE IF u \notin Users
        THEN /\ result' = Fail("finalize_and_deduct", u, tr, "UserNotFound")
             /\ UNCHANGED <<users, transactions>>
        ELSE IF IsPlatformSuperadmin(u)
        THEN /\ result' = Ok("finalize_and_deduct", u, tr)
             /\ UNCHANGED <<users, transactions>>
        ELSE IF ~usr.license_is_active \/ usr.license_tier_id = NoneVal
        THEN /\ result' = Ok("finalize_and_deduct", u, tr)
             /\ UNCHANGED <<users, transactions>>
        ELSE IF usr.license_tier_id \notin license_tiers
        THEN /\ result' = Fail("finalize_and_deduct", u, tr, "LicenseTierNotFound")
             /\ UNCHANGED <<users, transactions>>
        ELSE IF credits <= 0
        THEN /\ result' = Ok("finalize_and_deduct", u, tr)
             /\ UNCHANGED <<users, transactions>>
        ELSE /\ users' = [users EXCEPT ![u].credits_used = usr.credits_used + credits]
             /\ transactions' = Append(transactions,
                                  Tx(u, "deduction", credits,
                                     usr.credits_allocated - usr.credits_used,
                                     usr.credits_allocated - (usr.credits_used + credits),
                                     tr))
             /\ result' = Deducted("finalize_and_deduct", u, tr, credits)
  /\ UNCHANGED <<pools, subscriptions, meters, sessions, tenant, history, license_tiers, pricing, model_pricing>>

(* finalize_and_deduct whose commit fails and that drops the accumulated  *)
(* usage                                                                  *)
FinalizeCommitFails_M(tr) ==
  /\ meters[tr] # NoMeter
  /\ meters[tr].total_cost > 0
  /\ meters[tr].user_id \in Users
  /\ LET u == meters[tr].user_id
         usr == users[u]
     IN /\ ~IsPlatformSuperadmin(u)
        /\ usr.license_is_active
        /\ usr.license_tier_id \in license_tiers
        /\ MeteredCredits(meters[tr].total_cost, meters[tr].total_tokens, usr.license_tier_id) > 0
        /\ result' = Fail("finalize_and_deduct", u, tr, "CommitFailed")
        /\ meters' = [meters EXCEPT ![tr] = NewMeter(u)]
  /\ UNCHANGED <<pools, users, transactions, subscriptions, sessions, tenant, history, license_tiers, pricing, model_pricing>>

(* finalize_and_deduct whose commit raises: the session rolls back, the   *)
(* handler catches the exception and returns the error with 0 credits.    *)
FinalizeCommitFails(tr) ==
  /\ meters[tr] # NoMeter
  /\ meters[tr].total_cost > 0
  /\ meters[tr].user_id \in Users
  /\ LET u == meters[tr].user_id
         usr == users[u]
     IN /\ ~IsPlatformSuperadmin(u)
        /\ usr.license_is_active
        /\ usr.license_tier_id \in license_tiers
        /\ MeteredCredits(meters[tr].total_cost, meters[tr].total_tokens, usr.license_tier_id) > 0
        /\ result' = Fail("finalize_and_deduct", u, tr, "CommitFailed")
  /\ UNCHANGED <<pools, users, transactions, subscriptions, meters, sessions, tenant, history, license_tiers, pricing, model_pricing>>

----
(* Sequential runs of the License Pool Manager and subscription create *)
Next ==
  \/ \E t \in Tiers, n \in 0..MaxCount : CreateOrUpdatePool(t, n)
  \/ \E t \in Tiers, n \in 0..MaxCount : CreateSubscription(t, n)
  \/ \E u \in Users, t \in Tiers : Assign(u, t)
  \/ \E u \in Users : Unassign(u)
  \/ \E u \in Users, t \in Tiers, preserve \in BOOLEAN : Upgrade(u, t, preserve)

Spec == Init /\ [][Next]_vars

(* Sequential runs of assign and unassign next to pool and subscription    *)
(* creation                                                                *)
NextSeats ==
  \/ \E t \in Tiers, n \in 0..MaxCount : CreateOrUpdatePool(t, n)
  \/ \E t \in Tiers, n \in 0..MaxCount : CreateSubscription(t, n)
  \/ \E u \in Users, t \in Tiers : Assign(u, t)
  \/ \E u \in Users : Unassign(u)

SpecSeats == Init /\ [][NextSeats]_vars

(* The pricing engine on one trace after another, whose first trace has  *)
(* any cost and any tier, next to tier deletion                           *)
InitPricing ==
  /\ pools = <<>>
  /\ users = [u \in Users |-> BlankUser]
  /\ transactions = <<>>
  /\ subscriptions = <<>>
  /\ meters = [tr \in Traces |-> NoMeter]
  /\ result = Ok("init", NoneVal, NoneVal)
  /\ sessions = [p \in Procs |-> IdleSession]
  /\ tenant = NoSubscription
  /\ history = <<>>
  /\ license_tiers = PricedTiers
  /\ \E c \in 0..MaxPrice, t \in PricedTiers : pricing = ExtractedPricing(c, t)
  /\ model_pricing = PricingKeys

NextPricing ==
  \/ \E c \in 0..MaxPrice, t \in PricedTiers : ProcessTrace(c, t)
  \/ ProcessTraceMultiplier
  \/ ProcessTraceCredits
  \/ \E t \in PricedTiers : DeleteTier(t)

SpecPricing == InitPricing /\ [][NextPricing]_vars

(* Sequential runs of the pool operations next to tier deletion *)
NextTiers ==
  \/ \E t \in Tiers : DeleteTier(t)
  \/ \E t \in Tiers, n \in 0..MaxCount : CreateOrUpdatePool(t, n)
  \/ \E t \in Tiers, n \in 0..MaxCount : CreateSubscription(t, n)
  \/ \E u \in Users, t \in Tiers : Assign(u, t)
  \/ \E u \in Users : Unassign(u)

SpecTiers == Init /\ [][NextTiers]_vars

----
(* Concurrent requests: each call runs in its own storage session, reads   *)
(* its rows, and writes them at commit; a step is the code between awaits. *)

(* assign_license_to_user up to the read of the user row *)
AssignReadUser(p, u, t) ==
  /\ sessions[p].pc = "idle"
  /\ IF users[u].license_is_active
     THEN /\ result' = Fail("assign", u, t, "AlreadyLicensed")
          /\ UNCHANGED sessions
     ELSE /\ sessions' = [sessions EXCEPT ![p] =
                            [IdleSession EXCEPT !.pc = "assign_tenant", !.user_id = u,
                                                !.tier_id = t, !.user = users[u]]]
          /\ UNCHANGED result
  /\ UNCHANGED <<pools, users, transactions, subscriptions, meters, tenant, history, license_tiers, pricing, model_pricing>>

(* assign_license_to_user from the read of the tenant row to the commit *)
AssignReadTenant(p) ==
  /\ sessions[p].pc = "assign_tenant"
  /\ LET u == sessions[p].user_id
         t == sessions[p].tier_id
     IN IF t \notin license_tiers
        THEN /\ result' = Fail("assign", u, t, "TierNotFound")
             /\ sessions' = [sessions EXCEPT ![p] = IdleSession]
        ELSE IF t \notin DOMAIN pools
        THEN /\ result' = Fail("assign", u, t, "PoolNotFound")
             /\ sessions' = [sessions EXCEPT ![p] = IdleSession]
        ELSE IF pools[t].available_count <= 0
        THEN /\ result' = Fail("assign", u, t, "PoolExhausted")
             /\ sessions' = [sessions EXCEPT ![p] = IdleSession]
        ELSE /\ sessions' = [sessions EXCEPT ![p].pc = "assign_commit",
                                             ![p].pools = pools]
             /\ UNCHANGED result
  /\ UNCHANGED <<pools, users, transactions, subscriptions, meters, tenant, history, license_tiers, pricing, model_pricing>>

(* the commit of assign_license_to_user *)
AssignCommit(p) ==
  /\ sessions[p].pc = "assign_commit"
  /\ LET u == sessions[p].user_id
         t == sessions[p].tier_id
     IN /\ pools' = AssignedPools(sessions[p].pools, t)
        /\ users' = [users EXCEPT ![u] =
                       Flushed(users[u], sessions[p].user, AssignedUser(t))]
        /\ result' = Ok("assign", u, t)
  /\ sessions' = [sessions EXCEPT ![p] = IdleSession]
  /\ UNCHANGED <<transactions, subscriptions, meters, tenant, history, license_tiers, pricing, model_pricing>>

(* deduct_credits up to the commit without the comparison with the       *)
(* remaining balance                                                      *)
DeductRead_M(p, u, credits, usage_record_id) ==
  /\ sessions[p].pc = "idle"
  /\ LET usr == users[u]
     IN IF ~usr.license_is_active
        THEN /\ result' = [Fail("deduct", u, NoneVal, "NoActiveLicense") EXCEPT !.num = credits]
             /\ UNCHANGED sessions
        ELSE /\ sessions' = [sessions EXCEPT ![p] =
                               [IdleSession EXCEPT !.pc = "deduct_commit", !.user_id = u,
                                                   !.credits = credits, !.user = usr,
                                                   !.usage_record_id = usage_record_id]]
             /\ UNCHANGED result
  /\ UNCHANGED <<pools, users, transactions, subscriptions, meters, tenant, history, license_tiers, pricing, model_pricing>>

(* deduct_credits up to the commit *)
DeductRead(p, u, credits, usage_record_id) ==
  /\ sessions[p].pc = "idle"
  /\ LET usr == users[u]
     IN IF ~usr.license_is_active
        THEN /\ result' = [Fail("deduct", u, NoneVal, "NoActiveLicense") EXCEPT !.num = credits]
             /\ UNCHANGED sessions
        ELSE IF usr.credits_allocated - usr.credits_used < credits
        THEN /\ result' = [Fail("deduct", u, NoneVal, "InsufficientCredits") EXCEPT !.num = credits]
             /\ UNCHANGED sessions
        ELSE /\ sessions' = [sessions EXCEPT ![p] =
                               [IdleSession EXCEPT !.pc = "deduct_commit", !.user_id = u,
                                                   !.credits = credits, !.user = usr,
                                                   !.usage_record_id = usage_record_id]]
             /\ UNCHANGED result
  /\ UNCHANGED <<pools, users, transactions, subscriptions, meters, tenant, history, license_tiers, pricing, model_pricing>>

(* finalize_and_deduct up to the commit *)
FinalizeRead(p, tr) ==
  /\ sessions[p].pc = "idle"
  /\ meters[tr] # NoMeter
  /\ LET m == meters[tr]
         u == m.user_id
         usr == users[u]
         credits == MeteredCredits(m.total_cost, m.total_tokens, usr.license_tier_id)
     IN IF \/ m.total_cost <= 0
           \/ IsPlatformSuperadmin(u)
           \/ ~usr.license_is_active \/ usr.license_tier_id = NoneVal
           \/ credits <= 0
        THEN /\ result' = Ok("finalize_and_deduct", u, tr)
             /\ UNCHANGED sessions
        ELSE /\ sessions' = [sessions EXCEPT ![p] =
                               [IdleSession EXCEPT !.pc = "finalize_commit", !.user_id = u,
                                                   !.credits = credits, !.user = usr,
                                                   !.usage_record_id = tr]]
             /\ UNCHANGED result
  /\ UNCHANGED <<pools, users, transactions, subscriptions, meters, tenant, history, license_tiers, pricing, model_pricing>>

(* the commit of deduct_credits and of finalize_and_deduct: the user row   *)
(* and the transaction row computed from the row the session read          *)
DeductCommit(p) ==
  /\ sessions[p].pc \in {"deduct_commit", "finalize_commit"}
  /\ Len(transactions) < MaxTx
  /\ LET u == sessions[p].user_id
         usr == sessions[p].user
         credits == sessions[p].credits
         newUsed == usr.credits_used + credits
     IN /\ users' = [users EXCEPT ![u] =
                       Flushed(users[u], usr, [usr EXCEPT !.credits_used = newUsed])]
        /\ transactions' = Append(transactions,
                             Tx(u, "deduction", credits,
                                usr.credits_allocated - usr.credits_used,
                                usr.credits_allocated - newUsed,
                                sessions[p].usage_record_id))
        /\ result' = IF sessions[p].pc = "deduct_commit"
                      THEN [Deducted("deduct", u, NoneVal, credits) EXCEPT !.num = credits]
                      ELSE Deducted("finalize_and_deduct", u,
                                    sessions[p].usage_record_id, credits)
  /\ sessions' = [sessions EXCEPT ![p] = IdleSession]
  /\ UNCHANGED <<pools, subscriptions, meters, tenant, history, license_tiers, pricing, model_pricing>>

(* Every tier has a pool of MaxCount seats and nobody is licensed yet:     *)
(* the state after create_or_update_pool_for_tier for each tier.           *)
InitConc ==
  /\ pools = [t \in Tiers |-> NewPool(MaxCount)]
  /\ users = [u \in Users |-> BlankUser]
  /\ transactions = << >>
  /\ subscriptions = << >>
  /\ meters = [tr \in Traces |-> NoMeter]
  /\ result = Ok("create_or_update_pool", NoneVal, NoneVal)
  /\ sessions = [p \in Procs |-> IdleSession]
  /\ tenant = NoSubscription
  /\ history = << >>
  /\ license_tiers = AllTiers
  /\ pricing = NoPricing
  /\ model_pricing = PricingKeys

(* Assign, then deduct and add calls of licensed users *)
NextBalance ==
  \/ \E u \in Users, t \in Tiers : Assign(u, t)
  \/ \E u \in Users, c \in 0..MaxAmount :
       users[u].license_is_active /\ Deduct(u, c, NoneVal)
  \/ \E u \in Users, c \in 0..MaxAmount :
       users[u].license_is_active /\ AddCredits(u, c)

SpecBalance == InitConc /\ [][NextBalance]_vars

(* Concurrent assign calls *)
NextConc ==
  \/ \E p \in Procs, u \in Users, t \in Tiers : AssignReadUser(p, u, t)
  \/ \E p \in Procs : AssignReadTenant(p)
  \/ \E p \in Procs : AssignCommit(p)

SpecConc == InitConc /\ [][NextConc]_vars

(* Concurrent assign calls next to unassign calls; unassign              *)
(* runs while no pool counts more than MaxCount free seats.              *)
NextConcPool ==
  \/ \E p \in Procs, u \in Users, t \in Tiers : AssignReadUser(p, u, t)
  \/ \E p \in Procs : AssignReadTenant(p)
  \/ \E p \in Procs : AssignCommit(p)
  \/ \E u \in Users :
       /\ \A t \in DOMAIN pools : pools[t].available_count <= MaxCount
       /\ Unassign(u)

SpecConcPool == InitConc /\ [][NextConcPool]_vars

(* Concurrent assign calls next to upgrade calls and to pool requests of  *)
(* any integer total_count the request schema lets through, from a tenant *)
(* without pools                                                          *)
NextConcCounts ==
  \/ \E t \in Tiers, n \in (-1)..MaxCount : CreateOrUpdatePool(t, n)
  \/ \E p \in Procs, u \in Users, t \in Tiers : AssignReadUser(p, u, t)
  \/ \E p \in Procs : AssignReadTenant(p)
  \/ \E p \in Procs : AssignCommit(p)
  \/ \E u \in Users, t \in Tiers : Upgrade(u, t, FALSE)

SpecConcCounts == Init /\ [][NextConcCounts]_vars

(* A tenant in service: create_subscription for t1, a pool for t2, and     *)
(* u1 assigned a seat of t1 with the tier's initial balance.               *)
InitLicensed ==
  /\ pools = AssignedPools([t \in Tiers |-> NewPool(MaxCount)], "t1")
  /\ users = [u \in Users |-> IF u = "u1" THEN AssignedUser("t1") ELSE BlankUser]
  /\ transactions = << >>
  /\ subscriptions = <<NewSubscription("t1", MaxCount)>>
  /\ meters = [tr \in Traces |-> NoMeter]
  /\ result = Ok("assign", "u1", "t1")
  /\ sessions = [p \in Procs |-> IdleSession]
  /\ tenant = SubscribedTenant(NoSubscription, "t1", MaxCount)
  /\ history = <<HistoryRow(1, "created")>>
  /\ license_tiers = AllTiers
  /\ pricing = NoPricing
  /\ model_pricing = PricingKeys

(* Sequential runs of the Credit Ledger, upgrade, renew and cancel *)
NextLedger ==
  \/ \E u \in Users, t \in Tiers, preserve \in BOOLEAN : Upgrade(u, t, preserve)
  \/ \E u \in Users, c \in 0..MaxAmount, id \in UsageIds : Deduct(u, c, id)
  \/ \E u \in Users, c \in 0..MaxAmount : AddCredits(u, c)
  \/ \E u \in Users, c \in 0..MaxAmount : Refund(u, c)
  \/ \E i \in 1..MaxSubs : Renew(i)
  \/ \E i \in 1..MaxSubs : Cancel(i)

SpecLedger == InitLicensed /\ [][NextLedger]_vars

(* Sequential runs of the Metering Pipeline next to the ledger *)
NextMeter ==
  \/ \E u \in Users, c \in 0..MaxAmount, id \in UsageIds : Deduct(u, c, id)
  \/ \E u \in Users, c \in 0..MaxAmount : AddCredits(u, c)
  \/ \E u \in Users, c \in 0..MaxAmount : Refund(u, c)
  \/ \E tr \in Traces, u \in Users : NewCallback(tr, u)
  \/ \E tr \in Traces, cost \in 0..MaxCost, tokens \in 0..MaxTokens : OnLlmEnd(tr, ReportedUsage(cost, tokens))
  \/ \E tr \in Traces : FinalizeAndDeduct(tr)

SpecMeter == InitLicensed /\ [][NextMeter]_vars

(* User ids a callback can be built with: the users and one id that has   *)
(* no row                                                                 *)
CallbackUsers == Users \cup {"u3"}

(* Metered executions whose finalize can fail *)
NextFinalize ==
  \/ \E tr \in Traces, u \in CallbackUsers : NewCallback(tr, u)
  \/ \E tr \in Traces, cost \in 0..MaxCost, tokens \in 0..MaxTokens : OnLlmEnd(tr, ReportedUsage(cost, tokens))
  \/ \E tr \in Traces : FinalizeAndDeduct(tr)
  \/ \E tr \in Traces : FinalizeCommitFails(tr)
  \/ \E u \in Users, c \in 0..MaxAmount : Deduct(u, c, NoneVal)

SpecFinalize == InitLicensed /\ [][NextFinalize]_vars

(* Every tier has a pool of MaxCount seats; u1 holds a seat of any tier or *)
(* none, the superadmin u2 a seat of t1 or none: the states after          *)
(* create_or_update_pool_for_tier for each tier and the assign calls.      *)
InitMetered ==
  \E l \in [Users -> AllTiers \cup {NoneVal}] :
    /\ l["u2"] \in {"t1", NoneVal}
    /\ \A t \in AllTiers : Cardinality({u \in Users : l[u] = t}) <= MaxCount
    /\ pools = [t \in AllTiers |->
                  LET k == Cardinality({u \in Users : l[u] = t})
                  IN [total_count |-> MaxCount, available_count |-> MaxCount - k,
                      assigned_count |-> k]]
    /\ users = [u \in Users |->
                  IF l[u] = NoneVal THEN BlankUser ELSE AssignedUser(l[u])]
    /\ transactions = << >>
    /\ subscriptions = << >>
    /\ meters = [tr \in Traces |-> NoMeter]
    /\ result = Ok("create_or_update_pool", NoneVal, NoneVal)
    /\ sessions = [p \in Procs |-> IdleSession]
    /\ tenant = NoSubscription
    /\ history = << >>
    /\ license_tiers = AllTiers
    /\ pricing = NoPricing
    /\ model_pricing = PricingKeys

(* Metered executions next to deduct calls, for users on any tier *)
NextBilling ==
  \/ \E u \in Users, c \in 0..MaxAmount : Deduct(u, c, NoneVal)
  \/ \E tr \in Traces, u \in Users : NewCallback(tr, u)
  \/ \E tr \in Traces, cost \in 0..MaxCost, tokens \in 0..MaxTokens : OnLlmEnd(tr, ReportedUsage(cost, tokens))
  \/ \E tr \in Traces : FinalizeAndDeduct(tr)

SpecBilling == InitMetered /\ [][NextBilling]_vars

(* Metered executions observing any response, for a licensed user and an *)
(* unlicensed one                                                         *)
NextObserve ==
  \/ \E tr \in Traces, u \in Users : NewCallback(tr, u)
  \/ \E tr \in Traces, r \in Responses : OnLlmEnd(tr, r)
  \/ \E tr \in Traces : FinalizeAndDeduct(tr)

SpecObserve == InitLicensed /\ [][NextObserve]_vars

(* Sequential runs that write transaction rows from every side: upgrade, *)
(* the ledger, a metered execution, next to renew                        *)
NextRows ==
  \/ \E u \in Users, t \in Tiers : Upgrade(u, t, TRUE)
  \/ \E u \in Users, c \in 1..MaxAmount : Deduct(u, c, NoneVal)
  \/ \E u \in Users, c \in 1..MaxAmount : AddCredits(u, c)
  \/ \E u \in Users, c \in 1..MaxAmount : Refund(u, c)
  \/ \E tr \in Traces : NewCallback(tr, "u1")
  \/ \E tr \in Traces, cost \in 1..MaxCost : OnLlmEnd(tr, ReportedUsage(cost, 1))
  \/ \E tr \in Traces : FinalizeAndDeduct(tr)
  \/ \E i \in 1..MaxSubs : Renew(i)

SpecRows == InitLicensed /\ [][NextRows]_vars

(* Concurrent deduct calls only *)
NextConcDeduct ==
  \/ \E p \in Procs, u \in Users, c \in 0..MaxAmount, id \in UsageIds : DeductRead(p, u, c, id)
  \/ \E p \in Procs : DeductCommit(p)

SpecConcDeduct == InitLicensed /\ [][NextConcDeduct]_vars

(* Concurrent deductions: deduct calls and metered executions *)
NextConcLedger ==
  \/ \E p \in Procs, u \in Users, c \in 0..MaxAmount, id \in UsageIds : DeductRead(p, u, c, id)
  \/ \E p \in Procs, tr \in Traces : FinalizeRead(p, tr)
  \/ \E p \in Procs : DeductCommit(p)
  \/ \E tr \in Traces, u \in Users : NewCallback(tr, u)
  \/ \E tr \in Traces, cost \in 0..MaxCost, tokens \in 0..MaxTokens : OnLlmEnd(tr, ReportedUsage(cost, tokens))

SpecConcLedger == InitLicensed /\ [][NextConcLedger]_vars

(* Both tiers have a pool of MaxCount seats, u1 holds a seat of t1 and has *)
(* spent one credit, u2 holds a seat of t2, and there is no subscription   *)
(* yet: the state after create_or_update_pool_for_tier for each tier,      *)
(* assign(u1, t1), assign(u2, t2) and deduct(u1, 1).                       *)
InitSeated ==
  /\ pools = AssignedPools(AssignedPools([t \in Tiers |-> NewPool(MaxCount)], "t1"), "t2")
  /\ users = [u \in Users |->
                IF u = "u1" THEN [AssignedUser("t1") EXCEPT !.credits_used = 1]
                ELSE AssignedUser("t2")]
  /\ transactions = <<Tx("u1", "deduction", 1, Tier("t1").default_credits,
                         Tier("t1").default_credits - 1, NoneVal)>>
  /\ subscriptions = << >>
  /\ meters = [tr \in Traces |-> NoMeter]
  /\ result = [Deducted("deduct", "u1", NoneVal, 1) EXCEPT !.num = 1]
  /\ sessions = [p \in Procs |-> IdleSession]
  /\ tenant = NoSubscription
  /\ history = << >>
  /\ license_tiers = AllTiers
  /\ pricing = NoPricing
  /\ model_pricing = PricingKeys

(* Sequential runs of the Subscription Lifecycle next to assign and        *)
(* unassign                                                                *)
NextSub ==
  \/ \E t \in Tiers, n \in 0..MaxCount : CreateSubscription(t, n)
  \/ \E u \in Users, t \in Tiers : Assign(u, t)
  \/ \E u \in Users : Unassign(u)
  \/ \E i \in 1..MaxSubs : Renew(i)
  \/ \E i \in 1..MaxSubs : Cancel(i)

SpecSub == InitSeated /\ [][NextSub]_vars

(* Sequential runs of the Subscription Lifecycle in which the history      *)
(* commit of a create may fail, next to unassign                           *)
NextHistory ==
  \/ \E u \in Users : Unassign(u)
  \/ \E t \in Tiers, n \in 0..MaxCount : CreateSubscription(t, n)
  \/ \E t \in Tiers, n \in 0..MaxCount : CreateSubscriptionHistoryFails(t, n)
  \/ \E i \in 1..MaxSubs : Renew(i)
  \/ \E i \in 1..MaxSubs : Cancel(i)

SpecHistory == InitSeated /\ [][NextHistory]_vars

(* The tenant after two create_subscription calls, for t1 and then for   *)
(* t2, each for MaxCount seats                                            *)
InitTwoSubscriptions ==
  /\ pools = [t \in Tiers |-> NewPool(MaxCount)]
  /\ users = [u \in Users |-> BlankUser]
  /\ transactions = << >>
  /\ subscriptions = <<NewSubscription("t1", MaxCount), NewSubscription("t2", MaxCount)>>
  /\ meters = [tr \in Traces |-> NoMeter]
  /\ result = [Ok("create_subscription", NoneVal, "t2") EXCEPT !.num = 2]
  /\ sessions = [p \in Procs |-> IdleSession]
  /\ tenant = SubscribedTenant(SubscribedTenant(NoSubscription, "t1", MaxCount), "t2", MaxCount)
  /\ history = <<HistoryRow(1, "created"), HistoryRow(2, "created")>>
  /\ license_tiers = AllTiers
  /\ pricing = NoPricing
  /\ model_pricing = PricingKeys

(* Renew and cancel of either subscription next to assign and unassign *)
NextTwoSubscriptions ==
  \/ \E u \in Users, t \in Tiers : Assign(u, t)
  \/ \E u \in Users : Unassign(u)
  \/ \E i \in DOMAIN subscriptions : Renew(i)
  \/ \E i \in DOMAIN subscriptions : Cancel(i)

SpecTwoSubscriptions == InitTwoSubscriptions /\ [][NextTwoSubscriptions]_vars

(* Metered executions whose responses carry their cost at any place,     *)
(* next to deduct calls                                                   *)
NextCost ==
  \/ \E tr \in Traces, u \in Users : NewCallback(tr, u)
  \/ \E tr \in Traces, r \in CostReports : OnLlmEnd(tr, r)
  \/ \E tr \in Traces : FinalizeAndDeduct(tr)
  \/ \E u \in Users, c \in 0..MaxAmount : Deduct(u, c, NoneVal)

SpecCost == InitLicensed /\ [][NextCost]_vars

(* The three paths that grant a license, next to unassign *)
NextGrant ==
  \/ \E u \in Users \cup NewUsers, t \in Tiers \cup {NoneVal} : CreateTenantUser(u, t)
  \/ \E u \in Users \cup NewUsers, t \in Tiers : u \in DOMAIN users /\ Assign(u, t)
  \/ \E u \in Users \cup NewUsers : u \in DOMAIN users /\ Unassign(u)
  \/ \E u \in Users \cup NewUsers, t \in Tiers, preserve \in BOOLEAN :
       u \in DOMAIN users /\ Upgrade(u, t, preserve)

SpecGrant == InitConc /\ [][NextGrant]_vars

(* Cost estimates under a pricing file that lists its keys in any order *)
InitEstimate ==
  /\ pools = << >>
  /\ users = [u \in Users |-> BlankUser]
  /\ transactions = << >>
  /\ subscriptions = << >>
  /\ meters = [tr \in Traces |-> NoMeter]
  /\ result = Ok("init", NoneVal, NoneVal)
  /\ sessions = [p \in Procs |-> IdleSession]
  /\ tenant = NoSubscription
  /\ history = << >>
  /\ license_tiers = AllTiers
  /\ pricing = NoPricing
  /\ model_pricing \in PricingTables

NextEstimate ==
  \/ \E model \in EstimateModels, i \in 0..MaxTokens, o \in 0..MaxTokens :
       EstimateCostCall(model, i, o)
  \/ \E table \in PricingTables : ReloadPricing(table)

SpecEstimate == InitEstimate /\ [][NextEstimate]_vars

----
(* Properties *)

LicensedUsers(t) ==
  {u \in Users : users[u].license_is_active /\ users[u].license_tier_id = t}

Remaining(usr) == usr.credits_allocated - usr.credits_used

LastTx(txs) == txs[Len(txs)]

LedgerOps == {"deduct", "add", "refund", "renew", "finalize_and_deduct"}

RECURSIVE DeductedSum(_, _)
(* Sum of credits_amount over the deduction rows of user u in txs. *)
DeductedSum(txs, u) ==
  IF txs = << >> THEN 0
  ELSE (IF Head(txs).user_id = u /\ Head(txs).transaction_type = "deduction"
        THEN Head(txs).credits_amount ELSE 0) + DeductedSum(Tail(txs), u)

(* C1: in every state reached by a sequential run of createOrUpdatePool,   *)
(* subscription create, assign, unassign and upgrade, every pool has       *)
(* available_count + assigned_count = total_count.                         *)
C1_PoolCountsBalance ==
  \A t \in DOMAIN pools :
    pools[t].available_count + pools[t].assigned_count = pools[t].total_count

(* C2: in every state reached by a sequential run of the pool operations,  *)
(* the users holding an active license of a tier are never more than the   *)
(* total_count of the tenant's pool for that tier.                         *)
C2_LicensedWithinTotal ==
  \A t \in DOMAIN pools : Cardinality(LicensedUsers(t)) <= pools[t].total_count

(* C3: under any interleaving of concurrent assign calls, the users that   *)
(* end up licensed on a tier are never more than the seats the pool had    *)
(* available before the calls, hence never more than its total_count.      *)
C3_ConcurrentAssignsWithinSeats ==
  \A t \in Tiers :
    /\ Cardinality(LicensedUsers(t)) <= NewPool(MaxCount).available_count
    /\ Cardinality(LicensedUsers(t)) <= pools[t].total_count

(* C4: after a ledger operation that did not fail (deduct, add, refund,    *)
(* finalizeAndDeduct), every user with an active license has               *)
(* 0 <= credits_used <= credits_allocated.                                 *)
C4_UsedWithinAllocated ==
  (result.op \in LedgerOps /\ result.error = "") =>
    \A u \in Users :
      users[u].license_is_active =>
        /\ 0 <= users[u].credits_used
        /\ users[u].credits_used <= users[u].credits_allocated

(* C5: every successful deduct, add and refund writes exactly one          *)
(* transaction row, and its credits_after - credits_before is the signed   *)
(* amount: +credits_amount for add and refund, -credits_amount for deduct. *)
C5_OneRowWithSignedAmount ==
  [][(result'.op \in {"deduct", "add", "refund"} /\ result'.error = "") =>
       /\ Len(transactions') = Len(transactions) + 1
       /\ SubSeq(transactions', 1, Len(transactions)) = transactions
       /\ LET row == LastTx(transactions')
          IN row.credits_after - row.credits_before =
               IF result'.op = "deduct" THEN 0 - row.credits_amount
               ELSE row.credits_amount]_vars

(* C6: every change of a user's spendable balance by a deduction, a        *)
(* top-up (the monthly top-up of renew included) or a refund comes with a  *)
(* transaction row for that user written in the same commit.               *)
C6_BalanceChangeHasRow ==
  [][\A u \in Users :
       (result'.op \in LedgerOps /\ Remaining(users'[u]) # Remaining(users[u])) =>
         /\ Len(transactions') = Len(transactions) + 1
         /\ LastTx(transactions').user_id = u]_vars

(* C7: the transactions of one user, in commit order, form a chain: each   *)
(* row's credits_before is the previous row's credits_after.               *)
C7_TxChain ==
  \A i, j \in DOMAIN transactions :
    (/\ i < j
     /\ transactions[i].user_id = transactions[j].user_id
     /\ \A k \in DOMAIN transactions :
          (i < k /\ k < j) => transactions[k].user_id # transactions[i].user_id)
    => transactions[j].credits_before = transactions[i].credits_after

(* C8: under any interleaving of concurrent deductions for one user no     *)
(* deduction is lost: credits_used is the initial credits_used (0 at       *)
(* assignment) plus the sum of the committed deduction amounts.            *)
C8_NoLostDeduction ==
  \A u \in Users : users[u].credits_used = DeductedSum(transactions, u)

(* C9: for one accumulator, however often finalizeAndDeduct is called, at  *)
(* most one deduction row carries its trace id as usage_record_id.         *)
C9_AtMostOneDeductionPerTrace ==
  \A tr \in Traces :
    Cardinality({i \in DOMAIN transactions :
                   /\ transactions[i].usage_record_id = tr
                   /\ transactions[i].transaction_type = "deduction"}) <= 1

(* C10: a finalizeAndDeduct whose credit amount exceeds the user's         *)
(* remaining balance reports InsufficientCredits and leaves the user's     *)
(* balance and the ledger unchanged.                                       *)
C10_FinalizeInsufficientCredits ==
  [][(/\ result'.op = "finalize_and_deduct"
      /\ result'.arg \in Traces
      /\ LET m == meters[result'.arg]
             usr == users[m.user_id]
         IN /\ m.total_cost > 0
            /\ ~IsPlatformSuperadmin(m.user_id)
            /\ usr.license_is_active
            /\ usr.license_tier_id # NoneVal
            /\ MeteredCredits(m.total_cost, m.total_tokens, usr.license_tier_id)
                 > Remaining(usr))
     => /\ result'.error = "InsufficientCredits"
        /\ users' = users
        /\ transactions' = transactions]_vars

(* C11: the credits the claim names for cost (cents), tokens and tier t:   *)
(* trunc(cost * pricing_multiplier * credits_per_usd), raised to 1 when    *)
(* that is 0 and tokens were consumed.                                     *)
ClaimedCredits(cost, tokens, t) ==
  LET value == (cost * Tier(t).pricing_multiplier * Tier(t).credits_per_usd) \div 10000
  IN IF value = 0 /\ tokens > 0 THEN 1 ELSE value

(* The same with a credits_per_usd of 0 taken as 100 and a                 *)
(* pricing_multiplier of 0 taken as 1.00.                                  *)
FallbackCredits(cost, tokens, t) ==
  LET rate == IF Tier(t).credits_per_usd = 0 THEN 100 ELSE Tier(t).credits_per_usd
      mult == IF Tier(t).pricing_multiplier = 0 THEN 100 ELSE Tier(t).pricing_multiplier
      value == (cost * mult * rate) \div 10000
  IN IF value = 0 /\ tokens > 0 THEN 1 ELSE value

(* A finalize_and_deduct step of a non-superadmin user with an active      *)
(* license and a positive accumulated cost, whose amount(cost, tokens,     *)
(* tier) is within the remaining balance.                                  *)
BillableFinalize(amount(_, _, _)) ==
  /\ result'.op = "finalize_and_deduct"
  /\ result'.arg \in Traces
  /\ LET m == meters[result'.arg]
         usr == users[m.user_id]
     IN /\ m.total_cost > 0
        /\ ~IsPlatformSuperadmin(m.user_id)
        /\ usr.license_is_active
        /\ usr.license_tier_id # NoneVal
        /\ amount(m.total_cost, m.total_tokens, usr.license_tier_id) <= Remaining(usr)

(* The step deducts exactly amount(cost, tokens, tier) and records it in   *)
(* exactly one deduction row.                                              *)
DeductsWithRow(amount(_, _, _)) ==
  LET m == meters[result'.arg]
      u == m.user_id
      credits == amount(m.total_cost, m.total_tokens, users[u].license_tier_id)
  IN /\ result'.credits_deducted = credits
     /\ users'[u].credits_used = users[u].credits_used + credits
     /\ Len(transactions') = Len(transactions) + 1
     /\ SubSeq(transactions', 1, Len(transactions)) = transactions
     /\ LastTx(transactions').user_id = u
     /\ LastTx(transactions').transaction_type = "deduction"
     /\ LastTx(transactions').credits_amount = credits

(* C11 as stated: a billable finalizeAndDeduct with cost c > 0 deducts     *)
(* exactly trunc(c * pricing_multiplier * credits_per_usd), raised to 1    *)
(* when 0 with tokens consumed, and records exactly one deduction row of   *)
(* that amount.                                                            *)
C11_DeductsClaimedCredits ==
  [][BillableFinalize(ClaimedCredits) => DeductsWithRow(ClaimedCredits)]_vars

(* C11 (amended): a billable finalizeAndDeduct with cost c > 0 computes    *)
(* trunc(c * m * r), m the tier's pricing_multiplier (1.00 when it is 0),  *)
(* r its credits_per_usd (100 when it is 0), raised to 1 when 0 with       *)
(* tokens consumed; a positive amount is added to credits_used and         *)
(* recorded in exactly one deduction row, an amount of 0 changes neither   *)
(* the user nor the ledger.                                                *)
C11_DeductsFallbackCredits ==
  [][BillableFinalize(FallbackCredits) =>
       LET m == meters[result'.arg]
           credits == FallbackCredits(m.total_cost, m.total_tokens,
                                      users[m.user_id].license_tier_id)
       IN IF credits > 0
          THEN DeductsWithRow(FallbackCredits)
          ELSE /\ result'.credits_deducted = 0
               /\ users' = users
               /\ transactions' = transactions]_vars

(* A metered execution of 2 cents was billed 1 credit: 1.5 credits cut off *)
C11_Witness ==
  /\ result.op = "finalize_and_deduct"
  /\ result.credits_deducted = 1
  /\ meters[result.arg].total_cost = 2
  /\ users[result.user].license_tier_id = "t2"
  /\ LastTx(transactions).usage_record_id = result.arg
  /\ LastTx(transactions).credits_amount = 1

(* C12: finalizeAndDeduct changes no user's balance and writes no          *)
(* transaction when the accumulated cost is zero, the user is a platform   *)
(* superadmin, or the user has no active license; it returns a result      *)
(* without error and with zero credits deducted.                           *)
C12_FinalizeNoOp ==
  [][(/\ result'.op = "finalize_and_deduct"
      /\ result'.arg \in Traces
      /\ LET m == meters[result'.arg]
         IN \/ m.total_cost = 0
            \/ IsPlatformSuperadmin(m.user_id)
            \/ ~users[m.user_id].license_is_active)
     => /\ users' = users
        /\ transactions' = transactions
        /\ result'.error = ""
        /\ result'.credits_deducted = 0]_vars

(* A licensed superadmin's execution with a positive cost was finalized    *)
(* and nothing was billed.                                                 *)
C12_Witness ==
  /\ result.op = "finalize_and_deduct"
  /\ IsPlatformSuperadmin(result.user)
  /\ users[result.user].license_is_active
  /\ meters[result.arg].total_cost > 0
  /\ users[result.user].credits_used = 0
  /\ transactions = << >>

(* C13: a successful assign(u, T) of an unlicensed user takes one slot of  *)
(* T's pool and touches no other pool, and the unassign(u) that follows it *)
(* gives exactly that slot back and clears every license field of u: the   *)
(* two calls together restore total_count, available_count and             *)
(* assigned_count of every pool.                                           *)
C13_AssignUnassignRoundTrip ==
  [][/\ (result'.op = "assign" /\ result'.error = "") =>
          LET t == result'.arg
          IN /\ ~users[result'.user].license_is_active
             /\ DOMAIN pools' = DOMAIN pools
             /\ pools'[t] = [total_count |-> pools[t].total_count,
                             available_count |-> pools[t].available_count - 1,
                             assigned_count |-> pools[t].assigned_count + 1]
             /\ \A x \in DOMAIN pools \ {t} : pools'[x] = pools[x]
     /\ (/\ result.op = "assign" /\ result.error = ""
         /\ result'.op = "unassign" /\ result'.error = ""
         /\ result'.user = result.user) =>
          LET t == result.arg
          IN /\ DOMAIN pools' = DOMAIN pools
             /\ pools'[t] = [total_count |-> pools[t].total_count,
                             available_count |-> pools[t].available_count + 1,
                             assigned_count |-> pools[t].assigned_count - 1]
             /\ \A x \in DOMAIN pools \ {t} : pools'[x] = pools[x]
             /\ users'[result'.user] = BlankUser]_vars

(* u was assigned a seat and unassigned right after: the pool is full and  *)
(* unassigned again.                                                       *)
C13_Witness ==
  /\ result.op = "unassign"
  /\ result.error = ""
  /\ users[result.user] = BlankUser
  /\ \E t \in DOMAIN pools :
       /\ pools[t].total_count > 0
       /\ pools[t].available_count = pools[t].total_count
       /\ pools[t].assigned_count = 0

(* C14: assign fails with AlreadyLicensed when the user holds an active    *)
(* license, otherwise with PoolNotFound when the tenant has no pool for    *)
(* the tier, otherwise with PoolExhausted when the pool's available_count  *)
(* is <= 0; every failed assign leaves the pools, the users and the        *)
(* ledger unchanged.                                                       *)
C14_AssignFailures ==
  [][(result'.op = "assign") =>
       LET u == result'.user
           t == result'.arg
       IN /\ users[u].license_is_active => result'.error = "AlreadyLicensed"
          /\ (~users[u].license_is_active /\ t \notin DOMAIN pools)
               => result'.error = "PoolNotFound"
          /\ (/\ ~users[u].license_is_active
              /\ t \in DOMAIN pools
              /\ pools[t].available_count <= 0)
               => result'.error = "PoolExhausted"
          /\ (result'.error # "") =>
               /\ pools' = pools
               /\ users' = users
               /\ transactions' = transactions]_vars

(* An assign was refused because the pool had no slot left, while another  *)
(* user holds the seat.                                                    *)
C14_Witness ==
  /\ result.op = "assign"
  /\ result.error = "PoolExhausted"
  /\ ~users[result.user].license_is_active
  /\ pools[result.arg].available_count = 0
  /\ LicensedUsers(result.arg) # {}

C17_UpgradeCredits ==
  [][(result'.op = "upgrade" /\ result'.error = "") =>
       LET u == result'.user
           t == result'.arg
       IN /\ users'[u].credits_used = 0
          /\ users'[u].credits_allocated =
               IF result'.flag
               THEN (users[u].credits_allocated - users[u].credits_used)
                      + Tier(t).default_credits
               ELSE Tier(t).default_credits]_vars

(* An upgrade to t2 with preserve kept the single credit left of a user    *)
(* who had used part of the allocation: 1 + 3 credits, none used.          *)
C17_Witness ==
  /\ result.op = "upgrade"
  /\ result.error = ""
  /\ result.flag
  /\ transactions # << >>
  /\ transactions[1].transaction_type = "deduction"
  /\ users[result.user].license_tier_id = "t2"
  /\ users[result.user].credits_allocated = 1 + Tier("t2").default_credits
  /\ users[result.user].credits_used = 0

(* The pool map with the counts of tier t moved by d slots from assigned   *)
(* to available.                                                           *)
SlotsMoved(ps, t, d) ==
  [ps EXCEPT ![t].available_count = ps[t].available_count + d,
             ![t].assigned_count = ps[t].assigned_count - d]

(* C16: upgrade is all-or-nothing.  A successful upgrade gives the old     *)
(* tier's pool available_count + 1 and assigned_count - 1 and the new      *)
(* tier's pool available_count - 1 and assigned_count + 1, moves the user  *)
(* to the new tier with credits_used 0, and writes one upgrade row; an     *)
(* upgrade that fails (no current tier, no pool for the new tier, no       *)
(* available slot) leaves pools, users and ledger unchanged.               *)
C16_UpgradeAllOrNothing ==
  [][(result'.op = "upgrade") =>
       LET u == result'.user
           new == result'.arg
           old == users[u].license_tier_id
       IN /\ (\/ ~users[u].license_is_active
               \/ old = NoneVal
               \/ new \notin DOMAIN pools
               \/ pools[new].available_count <= 0) => result'.error # ""
          /\ IF result'.error = ""
             THEN /\ pools' = SlotsMoved(SlotsMoved(pools, old, 1), new, -1)
                  /\ users'[u].license_tier_id = new
                  /\ users'[u].credits_used = 0
                  /\ \A v \in Users \ {u} : users'[v] = users[v]
                  /\ Len(transactions') = Len(transactions) + 1
                  /\ SubSeq(transactions', 1, Len(transactions)) = transactions
                  /\ LastTx(transactions').transaction_type = "upgrade"
                  /\ LastTx(transactions').user_id = u
             ELSE /\ pools' = pools
                  /\ users' = users
                  /\ transactions' = transactions]_vars

(* C18: a successful renew increases credits_allocated of every user with  *)
(* an active license and a non-null credits_per_month by exactly           *)
(* credits_per_month, changes nothing else of any user (credits_used and   *)
(* unlicensed users included), and leaves every pool unchanged.            *)
C18_RenewTopsUp ==
  [][(result'.op = "renew" /\ result'.error = "") =>
       /\ \A u \in Users :
            users'[u] =
              IF users[u].license_is_active /\ users[u].credits_per_month # NoneInt
              THEN [users[u] EXCEPT !.credits_allocated =
                      users[u].credits_allocated + users[u].credits_per_month]
              ELSE users[u]
       /\ pools' = pools]_vars

(* A renew topped up u1, who had spent a credit, while a licensed user     *)
(* without monthly credits and the pools stayed as they were.              *)
C18_Witness ==
  /\ result.op = "renew"
  /\ result.error = ""
  /\ users["u1"].credits_allocated = Tier("t1").default_credits + users["u1"].credits_per_month
  /\ users["u1"].credits_used = 1
  /\ users["u2"] = AssignedUser("t2")

(* C19: renew of a subscription whose status is not active fails with      *)
(* SubscriptionNotActive and changes no subscription, tenant, user, pool   *)
(* or history state; a cancelled subscription stays cancelled, so after a  *)
(* successful cancel no renew of it succeeds and none tops up a user.      *)
C19_NoRenewUnlessActive ==
  [][\A i \in DOMAIN subscriptions :
       /\ (subscriptions[i].status # "active" /\ result'.op = "renew" /\ result'.num = i)
            => /\ result'.error = "SubscriptionNotActive"
               /\ subscriptions' = subscriptions
               /\ tenant' = tenant
               /\ users' = users
               /\ pools' = pools
               /\ history' = history
       /\ subscriptions[i].status = "cancelled"
            => /\ i \in DOMAIN subscriptions'
               /\ subscriptions'[i].status = "cancelled"]_vars

(* A renew was refused on a cancelled subscription while a user with       *)
(* monthly credits holds a license.                                        *)
C19_Witness ==
  /\ result.op = "renew"
  /\ result.error = "SubscriptionNotActive"
  /\ subscriptions[result.num].status = "cancelled"
  /\ history[Len(history)].action = "cancelled"
  /\ \E u \in Users : users[u].license_is_active /\ users[u].credits_per_month > 0

(* C20: cancel sets the subscription's status to cancelled and its end_date *)
(* to the renewal_date it has at cancel time, and leaves every pool and    *)
(* every user's license assignment and credits unchanged.                  *)
C20_CancelKeepsSeats ==
  [][(result'.op = "cancel" /\ result'.error = "") =>
       LET i == result'.num
       IN /\ subscriptions'[i].status = "cancelled"
          /\ subscriptions'[i].end_date = subscriptions[i].renewal_date
          /\ subscriptions'[i].renewal_date = subscriptions[i].renewal_date
          /\ pools' = pools
          /\ users' = users]_vars

(* A subscription renewed once was cancelled: its end_date is the renewal  *)
(* date after the renewal, and licensed users are still licensed.          *)
C20_Witness ==
  /\ result.op = "cancel"
  /\ subscriptions[result.num].status = "cancelled"
  /\ subscriptions[result.num].end_date = BillingDays + BillingDays
  /\ \E u \in Users : users[u].license_is_active

(* C21: the subscription history is an append-only log of the operations  *)
(* performed: a successful create, renew or cancel appends exactly one     *)
(* created, renewed or cancelled entry of its subscription, every other    *)
(* step (failed operations included) appends nothing, and no step changes  *)
(* or removes an entry.                                                    *)
C21_HistoryMatchesOperations ==
  [][LET done == result'.error = ""
         entry(action) == HistoryRow(result'.num, action)
     IN /\ Len(history') >= Len(history)
        /\ SubSeq(history', 1, Len(history)) = history
        /\ history' =
             IF done /\ result'.op = "create_subscription"
             THEN Append(history, entry("created"))
             ELSE IF done /\ result'.op = "renew"
             THEN Append(history, entry("renewed"))
             ELSE IF done /\ result'.op = "cancel"
             THEN Append(history, entry("cancelled"))
             ELSE history]_vars

(* create, renew, cancel of subscription 1 left exactly three entries *)
C21_Witness ==
  /\ result.op = "cancel"
  /\ result.error = ""
  /\ history = <<HistoryRow(1, "created"), HistoryRow(1, "renewed"),
                 HistoryRow(1, "cancelled")>>

(* C22: subscription create is one atomic unit: in no reachable state, a   *)
(* failure between its steps included, is there a Subscription row (with   *)
(* the tenant's mirrored fields and the seeded pool) without its created   *)
(* history entry.                                                          *)
C22_SubscriptionHasCreatedEntry ==
  \A i \in DOMAIN subscriptions :
    \E k \in DOMAIN history : history[k] = HistoryRow(i, "created")

(* C24: createOrUpdatePool(T, n) on a tier without a pool creates one with *)
(* total_count = available_count = n and assigned_count = 0; on a pool     *)
(* with n < assigned_count it fails with PoolReductionBelowAssigned and    *)
(* changes no pool; otherwise it sets total_count = n and available_count  *)
(* = n - assigned_count and keeps assigned_count; no other tier's pool     *)
(* changes.                                                                *)
C24_CreateOrUpdatePool ==
  [][(result'.op = "create_or_update_pool") =>
       LET t == result'.arg
           n == result'.num
       IN /\ \A x \in DOMAIN pools \ {t} : x \in DOMAIN pools' /\ pools'[x] = pools[x]
          /\ DOMAIN pools' = DOMAIN pools \cup (IF result'.error = "" THEN {t} ELSE {})
          /\ IF t \notin DOMAIN pools
             THEN /\ result'.error = ""
                  /\ pools'[t] = [total_count |-> n, available_count |-> n,
                                  assigned_count |-> 0]
             ELSE IF n < pools[t].assigned_count
             THEN /\ result'.error = "PoolReductionBelowAssigned"
                  /\ pools' = pools
             ELSE /\ result'.error = ""
                  /\ pools'[t] = [total_count |-> n,
                                  available_count |-> n - pools[t].assigned_count,
                                  assigned_count |-> pools[t].assigned_count]]_vars

(* A pool with an assigned seat was refused a total of 0 and keeps its     *)
(* counts.                                                                 *)
C24_Witness ==
  /\ result.op = "create_or_update_pool"
  /\ result.error = "PoolReductionBelowAssigned"
  /\ result.num < pools[result.arg].assigned_count
  /\ pools[result.arg].total_count > result.num

Converted ==
  /\ result.op = "calculate_credits_from_cost"
  /\ result.error = ""
  /\ pricing.step = "credits"

(* C25 as stated: costToCredits returns cost x credits_per_usd with the   *)
(* fraction dropped, never rounded up.                                    *)
C25_CreditsTruncated ==
  Converted =>
    pricing.credits = (result.num * Tier(result.arg).credits_per_usd) \div 100

(* C25: calculate_credits_from_cost returns cost x credits_per_usd        *)
(* rounded to the nearest integer, a tie going to the even integer.       *)
C25_CreditsRoundedToNearest ==
  Converted =>
    LET n == result.num * Tier(result.arg).credits_per_usd
        c == pricing.credits
    IN /\ 2 * (100 * c - n) <= 100
       /\ 2 * (n - 100 * c) <= 100
       /\ (2 * (100 * c - n) = 100 \/ 2 * (n - 100 * c) = 100) => c % 2 = 0

(* A product with a fraction above one half was converted *)
C25_Witness ==
  /\ Converted
  /\ (result.num * Tier(result.arg).credits_per_usd) % 100 > 50

(* C26: the credits finalize_and_deduct computes for a cost and a tier    *)
(* equal the credits the pricing engine computes for them (multiplier,    *)
(* then conversion), the floor of 1 credit apart.                         *)
C26_FinalizeMatchesEngine ==
  (Converted /\ result.flag) =>
    pricing.credits = MeteredCredits(pricing.trace_cost, 0, pricing.tier_id)

RECURSIVE CallsSum(_, _)
(* Sum of field f over the entries of a call list *)
CallsSum(calls, f) ==
  IF calls = << >> THEN 0 ELSE Head(calls)[f] + CallsSum(Tail(calls), f)

(* C27: on_llm_end changes no balance and writes no transaction; it only  *)
(* adds the call's input, output and total tokens and its cost to the      *)
(* accumulator, so the accumulated totals are the sums over the calls of   *)
(* the call list.                                                          *)
C27_TotalsMatchCalls ==
  \A tr \in Traces :
    LET m == meters[tr]
    IN /\ m.total_input_tokens = CallsSum(m.llm_calls, "input_tokens")
       /\ m.total_output_tokens = CallsSum(m.llm_calls, "output_tokens")
       /\ m.total_tokens = CallsSum(m.llm_calls, "total_tokens")
       /\ m.total_cost = CallsSum(m.llm_calls, "cost_usd")

(* C28: a failure while extracting usage never leaves on_llm_end, which   *)
(* returns normally and changes nothing but the accumulator, and a model  *)
(* that matches no key of the pricing table is priced with the default    *)
(* entry.                                                                 *)
C28_ExtractionFailureContained ==
  result.op = "on_llm_end" =>
    /\ result.error = ""
    /\ (~result.flag /\ result.num = NoneInt) =>
         LET calls == meters[result.arg].llm_calls
             c == calls[Len(calls)]
         IN (\A i \in DOMAIN PricingKeys : ~KeyInModel(PricingKeys[i], c.model))
            => c.cost_usd = c.input_tokens * ModelPricing("default")[1]
                          + c.output_tokens * ModelPricing("default")[2]

(* A malformed response was swallowed with a warning on a trace that has  *)
(* a call of an unknown model priced at the default entry.                *)
C28_Witness ==
  /\ result.op = "on_llm_end"
  /\ result.flag
  /\ \E i \in DOMAIN meters[result.arg].llm_calls :
       LET c == meters[result.arg].llm_calls[i]
       IN /\ c.model = "unknown-model"
          /\ c.input_tokens = 1
          /\ c.cost_usd = ModelPricing("default")[1]

(* C29: transaction rows are append-only: no operation updates or deletes *)
(* an existing row, so every step keeps the rows there are, with their     *)
(* values, and at most adds rows after them.                               *)
C29_TransactionsAppendOnly ==
  [][/\ Len(transactions') >= Len(transactions)
     /\ SubSeq(transactions', 1, Len(transactions)) = transactions]_vars

(* A refund row was written after the row of a metered execution *)
C29_Witness ==
  /\ Len(transactions) >= 2
  /\ transactions[1].usage_record_id \in Traces
  /\ transactions[2].transaction_type = "refund"

(* C30: under any interleaving of concurrent assign, unassign, upgrade    *)
(* and createOrUpdatePool calls, and in every state reached afterwards,   *)
(* every pool has available_count + assigned_count = total_count.         *)
C30_ConcurrentPoolCountsBalance ==
  \A t \in DOMAIN pools :
    pools[t].total_count = pools[t].available_count + pools[t].assigned_count

(* C31: available_count >= 0 and assigned_count >= 0 hold for every pool  *)
(* in every reachable state, interleaved concurrent assign and upgrade    *)
(* calls included.                                                        *)
C31_PoolCountsNonNegative ==
  \A t \in DOMAIN pools :
    /\ pools[t].available_count >= 0
    /\ pools[t].assigned_count >= 0

(* C32: under any interleaving of concurrent deduct calls for one user,   *)
(* credits_used never exceeds credits_allocated.                          *)
C32_ConcurrentDeductsWithinAllocated ==
  \A u \in Users : users[u].credits_used <= users[u].credits_allocated

(* Concurrent deducts of one user have committed deductions that add up   *)
(* to more than the user's allocation.                                    *)
C32_Witness ==
  \E u \in Users :
    /\ users[u].license_is_active
    /\ DeductedSum(transactions, u) > users[u].credits_allocated

(* C33: a slot is returned to its pool at most once per assignment.       *)
(* unassign of a user without an active license fails with                *)
(* NoActiveLicense and changes nothing; the unassign that directly        *)
(* follows assign(u, T) gives T's pool available_count + 1 and            *)
(* assigned_count - 1, and every unassign(u) that directly follows an     *)
(* unassign(u) fails and leaves the pools as they are.                    *)
C33_SlotReturnedOnce ==
  [][(result'.op = "unassign") =>
       LET u == result'.user
       IN /\ (~users[u].license_is_active) =>
               /\ result'.error = "NoActiveLicense"
               /\ pools' = pools
               /\ users' = users
               /\ transactions' = transactions
          /\ (result.op = "assign" /\ result.error = "" /\ result.user = u) =>
               /\ result'.error = ""
               /\ pools' = SlotsMoved(pools, result.arg, 1)
          /\ (result.op = "unassign" /\ result.user = u) =>
               /\ result'.error = "NoActiveLicense"
               /\ pools' = pools]_vars

(* A repeated unassign has failed after the slot went back to the pool. *)
C33_Witness ==
  /\ result.op = "unassign"
  /\ result.error = "NoActiveLicense"
  /\ users[result.user] = BlankUser
  /\ \E t \in DOMAIN pools :
       /\ pools[t].total_count > 0
       /\ pools[t].available_count = pools[t].total_count

RECURSIVE TypeSum(_, _, _)
(* Sum of credits_amount over the rows of user u in txs of one type. *)
TypeSum(txs, u, type) ==
  IF txs = << >> THEN 0
  ELSE (IF Head(txs).user_id = u /\ Head(txs).transaction_type = type
        THEN Head(txs).credits_amount ELSE 0) + TypeSum(Tail(txs), u, type)

(* Number of rows of user u in txs. *)
RowsOf(txs, u) == Cardinality({i \in 1..Len(txs) : txs[i].user_id = u})

(* C34: conservation of credits.  After any sequence of successful deduct *)
(* and add calls following assign(u, T), credits_allocated - credits_used *)
(* equals T.default_credits minus the sum of u's deduction rows plus the  *)
(* sum of u's addition rows, and u has one transaction row per such call. *)
C34_CreditsConserved ==
  [][/\ \A u \in Users :
          users'[u].license_is_active =>
            Remaining(users'[u]) =
              Tier(users'[u].license_tier_id).default_credits
                - TypeSum(transactions', u, "deduction")
                + TypeSum(transactions', u, "addition")
     /\ \A u \in Users :
          RowsOf(transactions', u) =
            RowsOf(transactions, u)
              + (IF result'.op \in {"deduct", "add"} /\ result'.error = ""
                    /\ result'.user = u
                 THEN 1 ELSE 0)]_vars

(* A licensed user has one deduction and one addition of more than zero   *)
(* credits behind them.                                                   *)
C34_Witness ==
  \E u \in Users :
    /\ users[u].license_is_active
    /\ RowsOf(transactions, u) = 2
    /\ TypeSum(transactions, u, "deduction") > 0
    /\ TypeSum(transactions, u, "addition") > 0

(* C35: a finalizeAndDeduct that fails (user or tier not found, or the   *)
(* commit fails) returns an error result with zero credits deducted and  *)
(* leaves the user's balance, the ledger and the accumulator's token and *)
(* cost totals unchanged.                                                *)
C35_FinalizeFailureKeepsUsage ==
  [][(result'.op = "finalize_and_deduct" /\ result'.error # "") =>
       /\ result'.credits_deducted = 0
       /\ users' = users
       /\ transactions' = transactions
       /\ meters' = meters]_vars

(* A finalize has failed at the commit with cost accumulated for a        *)
(* licensed user.                                                         *)
C35_Witness ==
  /\ result.op = "finalize_and_deduct"
  /\ result.error = "CommitFailed"
  /\ meters[result.arg].total_cost > 0
  /\ meters[result.arg].total_tokens > 0
  /\ users[result.user].license_is_active

(* Number of renewed entries of subscription i in the history. *)
RenewedRows(h, i) ==
  Cardinality({k \in 1..Len(h) : h[k] = HistoryRow(i, "renewed")})

(* C36: each successful renew sets renewal_date and next_payment_date to  *)
(* the previous renewal_date plus exactly 30 days, so k successful        *)
(* renewals advance renewal_date by 30 x k days; the tenant's mirrored    *)
(* renewal date equals the subscription's after each renew.               *)
C36_RenewAdvancesThirtyDays ==
  [][/\ (result'.op = "renew" /\ result'.error = "") =>
          LET i == result'.num
          IN /\ subscriptions'[i].renewal_date = subscriptions[i].renewal_date + 30
             /\ subscriptions'[i].next_payment_date = subscriptions[i].renewal_date + 30
             /\ tenant'.subscription_renewal_date = subscriptions'[i].renewal_date
     /\ \A i \in DOMAIN subscriptions' :
          subscriptions'[i].renewal_date =
            NewSubscription(subscriptions'[i].tier_id, 0).renewal_date
              + 30 * RenewedRows(history', i)]_vars

(* A subscription has been renewed twice. *)
C36_Witness ==
  /\ result.op = "renew"
  /\ result.error = ""
  /\ RenewedRows(history, result.num) = 2
  /\ subscriptions[result.num].renewal_date = 90
  /\ tenant.subscription_renewal_date = 90

(* C37: the tenant's subscription fields mirror the active subscription. *)
(* In every state reachable by create, renew and cancel, on several      *)
(* subscriptions of the same tenant too, whenever the tenant has a       *)
(* subscription with status active, the tenant's subscription_status is  *)
(* active and its mirrored tier and renewal date equal those of an       *)
(* active subscription of that tenant.                                   *)
C37_TenantMirrorsActiveSubscription ==
  (\E i \in DOMAIN subscriptions : subscriptions[i].status = "active") =>
    /\ tenant.subscription_status = "active"
    /\ \E i \in DOMAIN subscriptions :
         /\ subscriptions[i].status = "active"
         /\ tenant.subscription_tier_id = subscriptions[i].tier_id
         /\ tenant.subscription_renewal_date = subscriptions[i].renewal_date

(* Number of characters of a pricing key. *)
KeyLength(key) ==
  CASE key = "gpt-4" -> 5
    [] key = "gpt-4o" -> 6
    [] key = "gpt-4o-mini" -> 11
    [] OTHER -> 7

(* C38: when a model name contains more than one pricing-table key, the  *)
(* cost estimate uses the prices of the longest matching key, whatever   *)
(* the order of the entries in the table; the estimate is input_tokens x *)
(* input price + output_tokens x output price of that entry.             *)
C38_LongestKeyPrices ==
  (result.op = "estimate_cost") =>
    LET call == result.arg
        matching == {key \in AllPricingKeys : KeyInModel(key, call.model)}
        longest == CHOOSE key \in matching :
                     \A other \in matching : KeyLength(other) <= KeyLength(key)
    IN matching # {} =>
         result.num = call.input_tokens * ModelPricing(longest)[1]
                        + call.output_tokens * ModelPricing(longest)[2]

(* C39: whenever a model response directly reports a cost value, a cost  *)
(* of 0 included, the cost accumulated for that call equals the reported *)
(* value; the pricing-table estimate is used only when the response      *)
(* reports no cost.                                                      *)
C39_ReportedCostUsed ==
  (result.op = "on_llm_end" /\ ~result.flag /\ result.num # NoneInt) =>
    LET calls == meters[result.arg].llm_calls
    IN /\ calls # << >>
       /\ calls[Len(calls)].cost_usd = result.num

(* C40: the license fields of a user are mutually consistent in every    *)
(* reachable state, whichever path granted the license (assign, upgrade  *)
(* or tenant-user creation with a tier): license_is_active is true       *)
(* exactly when license_tier_id is set, and then license_pool_id equals  *)
(* license_tier_id and the tenant has a pool for that tier.              *)
C40_LicenseFieldsConsistent ==
  \A u \in DOMAIN users :
    /\ users[u].license_is_active <=> users[u].license_tier_id # NoneVal
    /\ users[u].license_is_active =>
         /\ users[u].license_pool_id = users[u].license_tier_id
         /\ users[u].license_tier_id \in DOMAIN pools

====
